---- MODULE Spec2Model ----
(***************************************************************************)
(* A model of the reference CPU kernel set, MathBackendCPU                 *)
(* (src/math/backends/backend_cpu.ts).                                     *)
(*                                                                         *)
(* A typed array is a sequence of values kept in `heap` (its identity is   *)
(* its index in the heap); an NDArray is a handle [buf, shape, dtype] on   *)
(* one typed array.  Sequences are 1-based, so the element the code reads  *)
(* as vals[i] is here vals[i + 1].  Every kernel is an operator from the   *)
(* heap and its operands to an outcome [heap, threw, result]: the heap as  *)
(* the call leaves it, whether the call threw, and the handle(s) returned. *)
(* Numbers are small integers; NaN is a value of its own, on which every   *)
(* comparison is false.                                                    *)
(***************************************************************************)
EXTENDS Integers, Sequences, FiniteSets, TLC

VARIABLES heap, tensors, op, args, ret

vars == <<heap, tensors, op, args, ret>>

---------------------------------------------------------------------------
(* Bounds of the model.                                                    *)

\* Largest number of elements of a tensor drawn as an input of a reduction.
MaxSize == 4
\* Finite tensor values are 1..MaxVal.
MaxVal == 2

---------------------------------------------------------------------------
(* Numbers.                                                                *)

\* Number.NaN
NaN == -99
\* util.NAN_INT32, the NaN of an int32 tensor
NAN_INT32 == -2147483647 - 1

isNaN(v) == v = NaN

\* value < min, value > max: a comparison with NaN is false
Lt(a, b) == ~isNaN(a) /\ ~isNaN(b) /\ a < b
Gt(a, b) == ~isNaN(a) /\ ~isNaN(b) /\ a > b

\* arithmetic on numbers: NaN in, NaN out
Plus(u, v) == IF isNaN(u) \/ isNaN(v) THEN NaN ELSE u + v
Times(u, v) == IF isNaN(u) \/ isNaN(v) THEN NaN ELSE u * v

Finite == 1..MaxVal
Floats == Finite \cup {NaN}

---------------------------------------------------------------------------
(* Typed arrays, shapes and handles.                                       *)

RECURSIVE sizeFromShape(_)
sizeFromShape(shape) ==
  IF shape = <<>> THEN 1 ELSE Head(shape) * sizeFromShape(Tail(shape))

Zeros(n) == [i \in 1..n |-> 0]

\* new Float32Array(n), NDArray.zeros(shape): a fresh typed array, at the
\* end of the heap
Alloc(h, vals) == Append(h, vals)
NewBuf(h) == Len(h) + 1

NDArray(buf, shape, dtype) == [buf |-> buf, shape |-> shape, dtype |-> dtype]

NoResult == <<>>

\* the call returns `result`, leaving the heap as h
Return(h, result) == [heap |-> h, threw |-> FALSE, result |-> result]
\* the call throws, leaving the heap as h
Throw(h) == [heap |-> h, threw |-> TRUE, result |-> NoResult]

\* x.getValues()
getValues(h, x) == h[x.buf]

\* Scalar.ONE and Scalar.NEG_ONE, the two tensors the Scalar class holds:
\* they are on the heap before any call
StaticHeap == << <<1>>, <<-1>> >>
ONE == NDArray(1, <<>>, "float32")
NEG_ONE == NDArray(2, <<>>, "float32")

\* the typed array of the k-th tensor the caller has drawn
In(k) == Len(StaticHeap) + k

\* the sequences of length n over S
SeqsOf(S, n) == [1..n -> S]

---------------------------------------------------------------------------
(* axis_util                                                               *)

\* axis_util.axesAreInnerMostDims: the axes (0-based) are the last ones
axesAreInnerMostDims(axes, rank) ==
  \A i \in 0..(Len(axes) - 1) : axes[Len(axes) - i] = rank - 1 - i

\* axis_util.computeOutAndReduceShapes
computeOutAndReduceShapes(shape, axes) ==
  LET kept == SelectSeq([d \in 1..Len(shape) |-> d],
                        LAMBDA d : \A i \in 1..Len(axes) : axes[i] # d - 1)
  IN  << [i \in 1..Len(kept) |-> shape[kept[i]]],
         [i \in 1..Len(axes) |-> shape[axes[i] + 1]] >>

---------------------------------------------------------------------------
(* Reductions: min, max, argMin, argMax.                                   *)

\* the inner loop of min, from j on, with the running minimum
RECURSIVE minScan(_, _, _, _, _)
minScan(aVals, offset, reduceSize, j, minV) ==
  IF j >= reduceSize THEN minV
  ELSE LET value == aVals[offset + j + 1]
       IN  IF isNaN(value) THEN NaN
           ELSE minScan(aVals, offset, reduceSize, j + 1,
                        IF Lt(value, minV) THEN value ELSE minV)

\* let min = aVals[0]: the running minimum of every window starts from the
\* first element of the tensor
minStart(aVals, offset) == aVals[1]

min(h, x, axes) ==
  IF ~axesAreInnerMostDims(axes, Len(x.shape)) THEN Throw(h)
  ELSE LET shapes == computeOutAndReduceShapes(x.shape, axes)
           outShape == shapes[1]
           reduceSize == sizeFromShape(shapes[2])
           aVals == getValues(h, x)
           vals == [i \in 1..sizeFromShape(outShape) |->
                      minScan(aVals, (i - 1) * reduceSize, reduceSize, 0,
                              minStart(aVals, (i - 1) * reduceSize))]
       IN  Return(Alloc(h, vals), NDArray(NewBuf(h), outShape, x.dtype))

RECURSIVE maxScan(_, _, _, _, _)
maxScan(aVals, offset, reduceSize, j, maxV) ==
  IF j >= reduceSize THEN maxV
  ELSE LET value == aVals[offset + j + 1]
       IN  IF isNaN(value) THEN NaN
           ELSE maxScan(aVals, offset, reduceSize, j + 1,
                        IF Gt(value, maxV) THEN value ELSE maxV)

\* let max = aVals[offset]
maxStart(aVals, offset) == aVals[offset + 1]

max(h, x, axes) ==
  IF ~axesAreInnerMostDims(axes, Len(x.shape)) THEN Throw(h)
  ELSE LET shapes == computeOutAndReduceShapes(x.shape, axes)
           outShape == shapes[1]
           reduceSize == sizeFromShape(shapes[2])
           aVals == getValues(h, x)
           vals == [i \in 1..sizeFromShape(outShape) |->
                      maxScan(aVals, (i - 1) * reduceSize, reduceSize, 0,
                              maxStart(aVals, (i - 1) * reduceSize))]
       IN  Return(Alloc(h, vals), NDArray(NewBuf(h), outShape, x.dtype))

\* the inner loop of argMin, with the running minimum and its index
RECURSIVE argMinScan(_, _, _, _, _, _)
argMinScan(aVals, offset, reduceSize, j, minV, minIndex) ==
  IF j >= reduceSize THEN minIndex
  ELSE LET value == aVals[offset + j + 1]
       IN  IF isNaN(value) THEN NAN_INT32
           ELSE IF Lt(value, minV)
                THEN argMinScan(aVals, offset, reduceSize, j + 1, value, j)
                ELSE argMinScan(aVals, offset, reduceSize, j + 1, minV, minIndex)

argMin(h, x, axes) ==
  IF ~axesAreInnerMostDims(axes, Len(x.shape)) THEN Throw(h)
  ELSE LET shapes == computeOutAndReduceShapes(x.shape, axes)
           outShape == shapes[1]
           reduceSize == sizeFromShape(shapes[2])
           aVals == getValues(h, x)
           vals == [i \in 1..sizeFromShape(outShape) |->
                      argMinScan(aVals, (i - 1) * reduceSize, reduceSize, 0,
                                 aVals[(i - 1) * reduceSize + 1], 0)]
       IN  Return(Alloc(h, vals), NDArray(NewBuf(h), outShape, "int32"))

\* argMaxScan without the break: the scan goes on after a NaN
RECURSIVE argMaxScanNoBreak(_, _, _, _, _, _)
argMaxScanNoBreak(aVals, offset, reduceSize, j, maxV, maxIndex) ==
  IF j >= reduceSize THEN maxIndex
  ELSE LET value == aVals[offset + j + 1]
       IN  IF isNaN(value)
           THEN argMaxScanNoBreak(aVals, offset, reduceSize, j + 1, maxV, NAN_INT32)
           ELSE IF Gt(value, maxV)
                THEN argMaxScanNoBreak(aVals, offset, reduceSize, j + 1, value, j)
                ELSE argMaxScanNoBreak(aVals, offset, reduceSize, j + 1, maxV, maxIndex)

RECURSIVE argMaxScan(_, _, _, _, _, _)
argMaxScan(aVals, offset, reduceSize, j, maxV, maxIndex) ==
  IF j >= reduceSize THEN maxIndex
  ELSE LET value == aVals[offset + j + 1]
       IN  IF isNaN(value) THEN NAN_INT32
           ELSE IF Gt(value, maxV)
                THEN argMaxScan(aVals, offset, reduceSize, j + 1, value, j)
                ELSE argMaxScan(aVals, offset, reduceSize, j + 1, maxV, maxIndex)

argMax(h, x, axes) ==
  IF ~axesAreInnerMostDims(axes, Len(x.shape)) THEN Throw(h)
  ELSE LET shapes == computeOutAndReduceShapes(x.shape, axes)
           outShape == shapes[1]
           reduceSize == sizeFromShape(shapes[2])
           aVals == getValues(h, x)
           vals == [i \in 1..sizeFromShape(outShape) |->
                      argMaxScan(aVals, (i - 1) * reduceSize, reduceSize, 0,
                                 aVals[(i - 1) * reduceSize + 1], 0)]
       IN  Return(Alloc(h, vals), NDArray(NewBuf(h), outShape, "int32"))

---------------------------------------------------------------------------
(* Top-k.                                                                  *)

\* the {value, index} pairs topK pushes, in input order (index is 0-based)
valuesAndIndicesOf(values) ==
  [i \in 1..Len(values) |-> [value |-> values[i], index |-> i - 1]]

\* a comparator that sorts in increasing order: a.value - b.value
compareAscending(a, b) ==
  IF isNaN(a.value) \/ isNaN(b.value) THEN NaN ELSE a.value - b.value

\* (a, b) => b.value - a.value: negative, zero or positive, NaN when either
\* value is NaN
compare(a, b) ==
  IF isNaN(a.value) \/ isNaN(b.value) THEN NaN ELSE b.value - a.value

Orderings(n) == { f \in [1..n -> 1..n] : \A i, j \in 1..n : f[i] = f[j] => i = j }

\* Array.prototype.sort with that comparator: some arrangement of the
\* elements in which no element comes before one the comparator puts ahead
\* of it.  The language leaves the order of elements that compare equal to
\* the engine, and every order when the comparator is not consistent (NaN).
sort(arr) ==
  LET n == Len(arr)
      consistent == \A i \in 1..n : ~isNaN(arr[i].value)
  IN  { [i \in 1..n |-> arr[f[i]]] : f \in
          { g \in Orderings(n) :
              consistent =>
                \A i, j \in 1..n : i < j => compare(arr[g[i]], arr[g[j]]) <= 0 } }

\* the loop filling the two typed arrays: the first `upto` entries written
topkFilled(sorted, k, upto, field) ==
  [i \in 1..k |-> IF i <= upto THEN sorted[i][field] ELSE 0]

\* topK, with the array as sort left it
topK(h, ndarray, k, sorted) ==
  IF k < 0
  THEN \* util.getTypedArrayFromDType(dtype, k): RangeError, invalid length
       Throw(h)
  ELSE IF k > Len(sorted)
  THEN \* both typed arrays are allocated and filled up to the end of the
       \* sorted array, where valuesAndIndices[i] is undefined: TypeError
       Throw(Alloc(Alloc(h, topkFilled(sorted, k, Len(sorted), "value")),
                   topkFilled(sorted, k, Len(sorted), "index")))
  ELSE Return(Alloc(Alloc(h, topkFilled(sorted, k, k, "value")),
                    topkFilled(sorted, k, k, "index")),
              [values |-> NDArray(NewBuf(h), <<k>>, ndarray.dtype),
               indices |-> NDArray(NewBuf(h) + 1, <<k>>, "int32")])

topKValues(h, x, k, sorted) ==
  LET r == topK(h, x, k, sorted)
  IN  IF r.threw THEN r ELSE Return(r.heap, r.result.values)

topKIndices(h, x, k, sorted) ==
  LET r == topK(h, x, k, sorted)
  IN  IF r.threw THEN r ELSE Return(r.heap, r.result.indices)

---------------------------------------------------------------------------
(* Rank-4 access and sums.                                                 *)

\* NDArray.locToIndex of a rank-4 location (all 0-based)
locToIndex4(shape, i, j, k, l) ==
  ((i * shape[2] + j) * shape[3] + k) * shape[4] + l

\* NDArray.indexToLoc of a rank-4 tensor
indexToLoc4(shape, index) ==
  << index \div (shape[2] * shape[3] * shape[4]),
     (index \div (shape[3] * shape[4])) % shape[2],
     (index \div shape[4]) % shape[3],
     index % shape[4] >>

\* x.get(i, j, k, l)
get4(h, x, i, j, k, l) == h[x.buf][locToIndex4(x.shape, i, j, k, l) + 1]

\* the sum of the values of the function f, of finite domain
RECURSIVE SumFn(_)
SumFn(f) ==
  IF DOMAIN f = {} THEN 0
  ELSE LET e == CHOOSE e \in DOMAIN f : TRUE
       IN  f[e] + SumFn([d \in DOMAIN f \ {e} |-> f[d]])

\* the sum of numbers of which some may be NaN
SumNaN(f) == IF \E e \in DOMAIN f : isNaN(f[e]) THEN NaN ELSE SumFn(f)

Max2(a, b) == IF a >= b THEN a ELSE b
Min2(a, b) == IF a <= b THEN a ELSE b

\* bias == null
Null == [buf |-> 0, shape |-> <<>>, dtype |-> "null"]

---------------------------------------------------------------------------
(* conv2d.                                                                 *)

\* const xRCorner = yR * convInfo.strideHeight - padLeft
conv2dRowCorner(convInfo, yR) == yR * convInfo.strideHeight - convInfo.padInfo.left
\* const xCCorner = yC * convInfo.strideWidth - padTop
conv2dColCorner(convInfo, yC) == yC * convInfo.strideWidth - convInfo.padInfo.top

\* a dot product that stops after the first input channel
conv2dAtOneChannel(h, x, filter, bias, convInfo, b, yR, yC, d2) ==
  LET xRCorner == conv2dRowCorner(convInfo, yR)
      xCCorner == conv2dColCorner(convInfo, yC)
      rows == Max2(0, xRCorner)..(Min2(convInfo.inHeight, convInfo.filterHeight + xRCorner) - 1)
      cols == Max2(0, xCCorner)..(Min2(convInfo.inWidth, convInfo.filterWidth + xCCorner) - 1)
      term(e) == Times(get4(h, x, b, e[1], e[2], 0),
                       get4(h, filter, e[1] - xRCorner, e[2] - xCCorner, 0, d2))
  IN  SumNaN([e \in rows \X cols |-> term(e)])

\* dotProd + biasVal at output location (b, yR, yC, d2)
conv2dAt(h, x, filter, bias, convInfo, b, yR, yC, d2) ==
  LET xRCorner == conv2dRowCorner(convInfo, yR)
      xRMin == Max2(0, xRCorner)
      xRMax == Min2(convInfo.inHeight, convInfo.filterHeight + xRCorner)
      xCCorner == conv2dColCorner(convInfo, yC)
      xCMin == Max2(0, xCCorner)
      xCMax == Min2(convInfo.inWidth, convInfo.filterWidth + xCCorner)
      term(e) == Times(get4(h, x, b, e[1], e[2], e[3]),
                       get4(h, filter, e[1] - xRCorner, e[2] - xCCorner, e[3], d2))
      dotProd == SumNaN([e \in (xRMin..(xRMax - 1)) \X (xCMin..(xCMax - 1))
                                 \X (0..(convInfo.inChannels - 1)) |-> term(e)])
      biasVal == IF bias # Null THEN h[bias.buf][d2 + 1] ELSE 0
  IN  Plus(dotProd, biasVal)

conv2d(h, x, filter, bias, convInfo) ==
  LET vals == [p \in 1..sizeFromShape(convInfo.outShape) |->
                 LET loc == indexToLoc4(convInfo.outShape, p - 1)
                 IN  conv2dAt(h, x, filter, bias, convInfo,
                              loc[1], loc[2], loc[3], loc[4])]
  IN  Return(Alloc(h, vals), NDArray(NewBuf(h), convInfo.outShape, "float32"))

\* Math.ceil(a / n) of an integer a and a positive integer n
ceilOf(a, n) == -((-a) \div n)

\* dotProd at input location (b, xR, xC, d1): the loops of conv2dDerInput
\* over yR in [xRMin, yRMax), yC in [xCMin, yCMax) and d2; yRMax and yCMax
\* are quotients that need not be integers
conv2dDerInputAt(h, dy, filter, convInfo, b, xR, xC, d1) ==
  LET filterHeight == convInfo.filterHeight
      filterWidth == convInfo.filterWidth
      topPad == filterHeight - 1 - convInfo.padInfo.top
      leftPad == filterWidth - 1 - convInfo.padInfo.left
      strideHeight == convInfo.strideHeight
      strideWidth == convInfo.strideWidth
      xRCorner == xR - leftPad
      xRMin == Max2(0, ceilOf(xRCorner, strideHeight))
      yRs == { yR \in xRMin..(convInfo.outHeight - 1) :
                 yR * strideHeight < filterHeight + xRCorner }
      xCCorner == xC - topPad
      xCMin == Max2(0, ceilOf(xCCorner, strideWidth))
      yCs == { yC \in xCMin..(convInfo.outWidth - 1) :
                 yC * strideWidth < filterWidth + xCCorner }
      term(e) == LET wR == e[1] * strideHeight - xRCorner
                     wC == e[2] * strideWidth - xCCorner
                     pixel == get4(h, dy, b, e[1], e[2], e[3])
                     weight == get4(h, filter, filterHeight - 1 - wR,
                                    filterWidth - 1 - wC, d1, e[3])
                 IN  Times(pixel, weight)
  IN  SumNaN([e \in yRs \X yCs \X (0..(convInfo.outChannels - 1)) |-> term(e)])

conv2dDerInput(h, dy, filter, convInfo) ==
  LET vals == [p \in 1..sizeFromShape(convInfo.inShape) |->
                 LET loc == indexToLoc4(convInfo.inShape, p - 1)
                 IN  conv2dDerInputAt(h, dy, filter, convInfo,
                                      loc[1], loc[2], loc[3], loc[4])]
  IN  Return(Alloc(h, vals), NDArray(NewBuf(h), convInfo.inShape, "float32"))

\* the output rows conv2dDerFilter visits for the filter row wR:
\* [yRMin, yRMax), where yRMax is a quotient that need not be an integer
derFilterRows(convInfo, wR) ==
  LET topPad == convInfo.padInfo.top
      yRMin == Max2(0, ceilOf(topPad - wR, convInfo.strideHeight))
  IN  { yR \in yRMin..(convInfo.outHeight - 1) :
          yR * convInfo.strideHeight < convInfo.inHeight + topPad - wR }

\* the output columns conv2dDerFilter visits for the filter column wC
derFilterCols(convInfo, wC) ==
  LET leftPad == convInfo.padInfo.left
      yCMin == Max2(0, ceilOf(leftPad - wC, convInfo.strideWidth))
  IN  { yC \in yCMin..(convInfo.outWidth - 1) :
          yC * convInfo.strideWidth < convInfo.inWidth + leftPad - wC }

\* dotProd at filter location (wR, wC, d1, d2): the loops of
\* conv2dDerFilter over b, yR and yC
conv2dDerFilterAt(h, x, dy, convInfo, wR, wC, d1, d2) ==
  LET term(e) ==
        LET xR == wR + e[2] * convInfo.strideHeight - convInfo.padInfo.top
            xC == wC + e[3] * convInfo.strideWidth - convInfo.padInfo.left
        IN  Times(get4(h, x, e[1], xR, xC, d1), get4(h, dy, e[1], e[2], e[3], d2))
  IN  SumNaN([e \in (0..(convInfo.batchSize - 1))
                      \X derFilterRows(convInfo, wR)
                      \X derFilterCols(convInfo, wC) |-> term(e)])

conv2dDerFilter(h, x, dy, convInfo) ==
  LET vals == [p \in 1..sizeFromShape(convInfo.filterShape) |->
                 LET loc == indexToLoc4(convInfo.filterShape, p - 1)
                 IN  conv2dDerFilterAt(h, x, dy, convInfo,
                                       loc[1], loc[2], loc[3], loc[4])]
  IN  Return(Alloc(h, vals), NDArray(NewBuf(h), convInfo.filterShape, "float32"))

\* a depthwise dot product read at input channel 0 whatever d1 is
depthwiseConv2DAtChannelZero(h, x, filter, convInfo, b, yR, yC, d1, q) ==
  LET xRCorner == yR * convInfo.strideHeight - convInfo.padInfo.left
      xCCorner == yC * convInfo.strideWidth - convInfo.padInfo.top
      rows == Max2(0, xRCorner)
                ..(Min2(convInfo.inHeight, convInfo.filterHeight + xRCorner) - 1)
      cols == Max2(0, xCCorner)
                ..(Min2(convInfo.inWidth, convInfo.filterWidth + xCCorner) - 1)
  IN  SumNaN([e \in rows \X cols |->
                Times(get4(h, x, b, e[1], e[2], 0),
                      get4(h, filter, e[1] - xRCorner, e[2] - xCCorner, d1, q))])

\* dotProd of depthwiseConv2D at (b, yR, yC) for input channel d1 and
\* multiplier q: the row corner is computed from padLeft, the column corner
\* from padTop
depthwiseConv2DAt(h, x, filter, convInfo, b, yR, yC, d1, q) ==
  LET xRCorner == yR * convInfo.strideHeight - convInfo.padInfo.left
      xRMin == Max2(0, xRCorner)
      xRMax == Min2(convInfo.inHeight, convInfo.filterHeight + xRCorner)
      xCCorner == yC * convInfo.strideWidth - convInfo.padInfo.top
      xCMin == Max2(0, xCCorner)
      xCMax == Min2(convInfo.inWidth, convInfo.filterWidth + xCCorner)
      term(e) == LET wR == e[1] - xRCorner
                     wC == e[2] - xCCorner
                     pixel == get4(h, x, b, e[1], e[2], d1)
                     weight == get4(h, filter, wR, wC, d1, q)
                 IN  Times(pixel, weight)
  IN  SumNaN([e \in (xRMin..(xRMax - 1)) \X (xCMin..(xCMax - 1)) |-> term(e)])

\* depthwiseConv2D: y.set(dotProd, b, yR, yC, d1 * chMul + q)
depthwiseConv2D(h, x, filter, convInfo) ==
  LET chMul == convInfo.outChannels \div convInfo.inChannels
      vals == [p \in 1..sizeFromShape(convInfo.outShape) |->
                 LET loc == indexToLoc4(convInfo.outShape, p - 1)
                 IN  depthwiseConv2DAt(h, x, filter, convInfo,
                                       loc[1], loc[2], loc[3],
                                       loc[4] \div chMul, loc[4] % chMul)]
  IN  Return(Alloc(h, vals), NDArray(NewBuf(h), convInfo.outShape, "float32"))

---------------------------------------------------------------------------
(* Pooling.                                                                *)

\* Number.NEGATIVE_INFINITY and Number.POSITIVE_INFINITY: below and above
\* every finite value
NEGATIVE_INFINITY == -1000
POSITIVE_INFINITY == 1000

\* the clipped window of rows of output row yR: [xRMin, xRMax)
poolRows(convInfo, yR) ==
  LET xRCorner == yR * convInfo.strideHeight - convInfo.padInfo.top
  IN  Max2(0, xRCorner)..(Min2(convInfo.inHeight, convInfo.filterHeight + xRCorner) - 1)

\* the clipped window of columns of output column yC: [xCMin, xCMax)
poolCols(convInfo, yC) ==
  LET xCCorner == yC * convInfo.strideWidth - convInfo.padInfo.left
  IN  Max2(0, xCCorner)..(Min2(convInfo.inWidth, convInfo.filterWidth + xCCorner) - 1)

\* the pixels of a window in the order the two loops visit them
windowScan(rows, cols) ==
  LET nc == Cardinality(cols)
      r0 == CHOOSE r \in rows : \A q \in rows : r <= q
      c0 == CHOOSE c \in cols : \A q \in cols : c <= q
  IN  IF rows = {} \/ cols = {} THEN <<>>
      ELSE [i \in 1..(Cardinality(rows) * nc) |->
              << r0 + ((i - 1) \div nc), c0 + ((i - 1) % nc) >>]

\* the two loops of pool over a window, from the i-th pixel on, with the
\* running minMaxValue; a NaN pixel ends both loops
RECURSIVE poolMinMax(_, _, _, _, _, _, _, _)
poolMinMax(h, x, b, d, scan, i, poolType, minMaxValue) ==
  IF i > Len(scan) THEN minMaxValue
  ELSE LET pixel == get4(h, x, b, scan[i][1], scan[i][2], d)
       IN  IF isNaN(pixel) THEN NaN
           ELSE IF (poolType = "max" /\ Gt(pixel, minMaxValue))
                     \/ (poolType = "min" /\ Lt(pixel, minMaxValue))
                THEN poolMinMax(h, x, b, d, scan, i + 1, poolType, pixel)
                ELSE poolMinMax(h, x, b, d, scan, i + 1, poolType, minMaxValue)

\* a float that is one of the two infinities
isInfinite(v) == v = NEGATIVE_INFINITY \/ v = POSITIVE_INFINITY

\* a + b of two floats: NaN of a NaN and of the two infinities of opposite
\* signs, an infinity of an infinity
plusFloat(a, b) ==
  IF isNaN(a) \/ isNaN(b) THEN NaN
  ELSE IF isInfinite(a) /\ isInfinite(b) THEN (IF a = b THEN a ELSE NaN)
  ELSE IF isInfinite(a) THEN a
  ELSE IF isInfinite(b) THEN b
  ELSE a + b

\* pixel / n of a float and a positive integer; the finite pixels drawn
\* are multiples of n, where the quotient is exact
divideFloat(pixel, n) ==
  IF isNaN(pixel) \/ isInfinite(pixel) THEN pixel ELSE pixel \div n

\* the variant of poolAvg that passes over the NaN pixels
RECURSIVE poolAvgSkippingNaN(_, _, _, _, _, _, _, _)
poolAvgSkippingNaN(h, x, b, d, scan, i, convInfo, avgValue) ==
  IF i > Len(scan) THEN avgValue
  ELSE LET pixel == get4(h, x, b, scan[i][1], scan[i][2], d)
       IN  IF isNaN(pixel)
           THEN poolAvgSkippingNaN(h, x, b, d, scan, i + 1, convInfo, avgValue)
           ELSE poolAvgSkippingNaN(h, x, b, d, scan, i + 1, convInfo,
                  plusFloat(avgValue,
                            divideFloat(pixel, convInfo.filterHeight
                                                 * convInfo.filterWidth)))

\* the two loops of pool over a window for the pool type "avg", from the
\* i-th pixel on, with the running avgValue; a NaN pixel ends both loops
RECURSIVE poolAvg(_, _, _, _, _, _, _, _)
poolAvg(h, x, b, d, scan, i, convInfo, avgValue) ==
  IF i > Len(scan) THEN avgValue
  ELSE LET pixel == get4(h, x, b, scan[i][1], scan[i][2], d)
       IN  IF isNaN(pixel) THEN NaN
           ELSE poolAvg(h, x, b, d, scan, i + 1, convInfo,
                        plusFloat(avgValue,
                                  divideFloat(pixel, convInfo.filterHeight
                                                       * convInfo.filterWidth)))

\* pool: avgValue for the pool type "avg", minMaxValue for "max" and "min"
pool(h, x, convInfo, poolType) ==
  LET vals == [p \in 1..sizeFromShape(convInfo.outShape) |->
                 LET loc == indexToLoc4(convInfo.outShape, p - 1)
                     scan == windowScan(poolRows(convInfo, loc[2]),
                                        poolCols(convInfo, loc[3]))
                 IN  IF poolType = "avg"
                     THEN poolAvg(h, x, loc[1], loc[4], scan, 1, convInfo, 0)
                     ELSE poolMinMax(h, x, loc[1], loc[4], scan, 1, poolType,
                                     IF poolType = "max" THEN NEGATIVE_INFINITY
                                     ELSE POSITIVE_INFINITY)]
  IN  Return(Alloc(h, vals), NDArray(NewBuf(h), convInfo.outShape, "float32"))

maxPool(h, x, convInfo) == pool(h, x, convInfo, "max")

minPool(h, x, convInfo) == pool(h, x, convInfo, "min")

avgPool(h, x, convInfo) == pool(h, x, convInfo, "avg")

\* the variant of maxPositionScan that takes the last maximum of the
\* window: pixel >= maxValue
RECURSIVE maxPositionScanLast(_, _, _, _, _, _, _, _, _, _)
maxPositionScanLast(h, x, b, d, convInfo, loc, scan, i, maxValue, maxPosition) ==
  IF i > Len(scan) THEN maxPosition
  ELSE LET pixel == get4(h, x, b, scan[i][1], scan[i][2], d)
           wR == scan[i][1] - (loc[2] * convInfo.strideHeight - convInfo.padInfo.top)
           wC == scan[i][2] - (loc[3] * convInfo.strideWidth - convInfo.padInfo.left)
       IN  IF ~Lt(pixel, maxValue)
           THEN maxPositionScanLast(h, x, b, d, convInfo, loc, scan, i + 1, pixel,
                                    wR * convInfo.filterWidth + wC)
           ELSE maxPositionScanLast(h, x, b, d, convInfo, loc, scan, i + 1,
                                    maxValue, maxPosition)

\* the two loops of maxPoolPositions over a window, from the i-th pixel on
RECURSIVE maxPositionScan(_, _, _, _, _, _, _, _, _, _)
maxPositionScan(h, x, b, d, convInfo, loc, scan, i, maxValue, maxPosition) ==
  IF i > Len(scan) THEN maxPosition
  ELSE LET pixel == get4(h, x, b, scan[i][1], scan[i][2], d)
           wR == scan[i][1] - (loc[2] * convInfo.strideHeight - convInfo.padInfo.top)
           wC == scan[i][2] - (loc[3] * convInfo.strideWidth - convInfo.padInfo.left)
       IN  IF Gt(pixel, maxValue)
           THEN maxPositionScan(h, x, b, d, convInfo, loc, scan, i + 1, pixel,
                                wR * convInfo.filterWidth + wC)
           ELSE maxPositionScan(h, x, b, d, convInfo, loc, scan, i + 1, maxValue,
                                maxPosition)

\* maxPoolPositions: the values of the array of positions
maxPoolPositions(h, x, convInfo) ==
  [p \in 1..sizeFromShape(convInfo.outShape) |->
     LET loc == indexToLoc4(convInfo.outShape, p - 1)
     IN  maxPositionScan(h, x, loc[1], loc[4], convInfo, loc,
                         windowScan(poolRows(convInfo, loc[2]),
                                    poolCols(convInfo, loc[3])),
                         1, NEGATIVE_INFINITY, -1)]

\* a mask that lets every window through
maxPoolMaskAlways(maxPos, curPos) == 1

\* const mask = maxPos === curPos ? 1 : 0
maxPoolMask(maxPos, curPos) == IF maxPos = curPos THEN 1 ELSE 0

\* dotProd of maxPoolBackprop at input location (b, dxR, dxC, d)
maxPoolBackpropAt(h, dy, maxPositions, convInfo, b, dxR, dxC, d) ==
  LET padLeft == convInfo.filterWidth - 1 - convInfo.padInfo.left
      padTop == convInfo.filterHeight - 1 - convInfo.padInfo.top
      dyRCorner == dxR - padTop
      dyCCorner == dxC - padLeft
      \* dyR = (dyRCorner + wR) / strideHeight is a row of dy
      rowOk(wR) == /\ dyRCorner + wR >= 0
                   /\ (dyRCorner + wR) % convInfo.strideHeight = 0
                   /\ (dyRCorner + wR) \div convInfo.strideHeight < convInfo.outHeight
      colOk(wC) == /\ dyCCorner + wC >= 0
                   /\ (dyCCorner + wC) % convInfo.strideWidth = 0
                   /\ (dyCCorner + wC) \div convInfo.strideWidth < convInfo.outWidth
      term(w) ==
        LET dyR == (dyRCorner + w[1]) \div convInfo.strideHeight
            dyC == (dyCCorner + w[2]) \div convInfo.strideWidth
            maxPos == convInfo.filterHeight * convInfo.filterWidth - 1
                        - maxPositions[locToIndex4(convInfo.outShape, b, dyR, dyC, d) + 1]
            curPos == w[1] * convInfo.filterWidth + w[2]
        IN  get4(h, dy, b, dyR, dyC, d) * maxPoolMask(maxPos, curPos)
  IN  SumFn([w \in { v \in (0..(convInfo.filterHeight - 1))
                             \X (0..(convInfo.filterWidth - 1)) :
                       rowOk(v[1]) /\ colOk(v[2]) } |-> term(w)])

\* maxPoolBackprop: the array of positions is a typed array of its own,
\* allocated before dx
maxPoolBackprop(h, dy, x, convInfo) ==
  LET maxPositions == maxPoolPositions(h, x, convInfo)
      h1 == Alloc(h, maxPositions)
      vals == [p \in 1..sizeFromShape(x.shape) |->
                 LET loc == indexToLoc4(x.shape, p - 1)
                 IN  maxPoolBackpropAt(h1, dy, maxPositions, convInfo,
                                       loc[1], loc[2], loc[3], loc[4])]
  IN  Return(Alloc(h1, vals), NDArray(NewBuf(h1), x.shape, "float32"))

---------------------------------------------------------------------------
(* Locations of any rank.                                                  *)

Front(q) == SubSeq(q, 1, Len(q) - 1)

\* NDArray.locToIndex: the row-major offset of a location (0-based)
RECURSIVE locToIndex(_, _)
locToIndex(shape, loc) ==
  IF shape = <<>> THEN 0
  ELSE locToIndex(Front(shape), Front(loc)) * shape[Len(shape)] + loc[Len(loc)]

\* NDArray.indexToLoc: the location of a row-major offset
indexToLoc(shape, index) ==
  [d \in 1..Len(shape) |->
     (index \div sizeFromShape(SubSeq(shape, d + 1, Len(shape)))) % shape[d]]

\* x.get(...loc)
get(h, x, loc) == h[x.buf][locToIndex(x.shape, loc) + 1]

---------------------------------------------------------------------------
(* clone, slice, concat.                                                   *)

\* a clone that hands back the typed array of its input
cloneAliased(h, x) == Return(h, NDArray(x.buf, x.shape, "float32"))

\* clone: new Float32Array(x.getValues()) copies the values
clone(h, x) ==
  Return(Alloc(h, getValues(h, x)), NDArray(NewBuf(h), x.shape, "float32"))

\* slice1D: TypedArray.slice copies the elements of [begin, begin + size)
slice1D(h, x, begin, size) ==
  LET newVals == SubSeq(getValues(h, x), begin + 1, begin + size)
  IN  Return(Alloc(h, newVals), NDArray(NewBuf(h), <<Len(newVals)>>, "float32"))

slice2D(h, x, begin, size) ==
  LET vals == [p \in 1..sizeFromShape(size) |->
                 LET loc == indexToLoc(size, p - 1)
                 IN  get(h, x, << loc[1] + begin[1], loc[2] + begin[2] >>)]
  IN  Return(Alloc(h, vals), NDArray(NewBuf(h), size, "float32"))

\* concat_util.computeOutShape: the shape of a with the axis grown by b's
computeOutShape(aShape, bShape, axis) ==
  [d \in 1..Len(aShape) |->
     IF d = axis + 1 THEN aShape[d] + bShape[d] ELSE aShape[d]]

\* concat1D: vals.set(aVals, 0); vals.set(bVals, a.size) on a fresh array
concat1D(h, a, b) ==
  LET outShape == computeOutShape(a.shape, b.shape, 0)
  IN  Return(Alloc(h, getValues(h, a) \o getValues(h, b)),
             NDArray(NewBuf(h), outShape, "float32"))

concat2D(h, a, b, axis) ==
  LET outShape == computeOutShape(a.shape, b.shape, axis)
      vals == IF axis = 0 THEN getValues(h, a) \o getValues(h, b)
              ELSE [p \in 1..sizeFromShape(outShape) |->
                      LET index == indexToLoc(outShape, p - 1)
                      IN  IF index[axis + 1] < a.shape[axis + 1]
                          THEN get(h, a, index)
                          ELSE get(h, b, [index EXCEPT ![axis + 1] =
                                            @ - a.shape[axis + 1]])]
  IN  Return(Alloc(h, vals), NDArray(NewBuf(h), outShape, "float32"))

---------------------------------------------------------------------------
(* Binary and unary kernels.                                               *)

\* the dimension of a shape aligned i places from the right (0-based), 1
\* where the shape has none: shape[shape.length - i - 1] || 1
dimFromRight(shape, i) == IF i < Len(shape) THEN shape[Len(shape) - i] ELSE 1

\* broadcast_util.assertAndGetBroadcastShape fails on these shapes
broadcastIncompatible(shapeA, shapeB) ==
  \E i \in 0..(Max2(Len(shapeA), Len(shapeB)) - 1) :
    /\ dimFromRight(shapeA, i) # dimFromRight(shapeB, i)
    /\ dimFromRight(shapeA, i) # 1
    /\ dimFromRight(shapeB, i) # 1

\* broadcast_util.assertAndGetBroadcastShape, on compatible shapes
getBroadcastShape(shapeA, shapeB) ==
  LET l == Max2(Len(shapeA), Len(shapeB))
  IN  [d \in 1..l |-> Max2(dimFromRight(shapeA, l - d), dimFromRight(shapeB, l - d))]

\* broadcast_util.getBroadcastDims: the axes of the input (0-based) that
\* are of size 1 and replicated in the output
getBroadcastDims(inShape, outShape) ==
  { dim \in 0..(Len(inShape) - 1) :
      /\ inShape[dim + 1] = 1
      /\ dimFromRight(outShape, Len(inShape) - 1 - dim) > 1 }

\* loc.slice(-rank), then the broadcast dims set to 0
operandLoc(loc, rank, broadcastDims) ==
  LET sliced == IF rank = 0 THEN loc
                ELSE SubSeq(loc, Len(loc) - rank + 1, Len(loc))
  IN  [d \in 1..Len(sliced) |-> IF (d - 1) \in broadcastDims THEN 0 ELSE sliced[d]]

\* the pairs of an element of a and an element of b
ValuePairs(h, a, b) ==
  { getValues(h, a)[i] : i \in DOMAIN getValues(h, a) }
    \X { getValues(h, b)[i] : i \in DOMAIN getValues(h, b) }

\* broadcastedBinaryOp with the combinator opFn, a function of the pairs of
\* values
broadcastedBinaryOp(h, a, b, dtype, opFn) ==
  IF broadcastIncompatible(a.shape, b.shape) THEN Throw(h)
  ELSE LET newShape == getBroadcastShape(a.shape, b.shape)
           aBroadcastDims == getBroadcastDims(a.shape, newShape)
           bBroadcastDims == getBroadcastDims(b.shape, newShape)
           vals == [p \in 1..sizeFromShape(newShape) |->
                      LET loc == indexToLoc(newShape, p - 1)
                          aLoc == operandLoc(loc, Len(a.shape), aBroadcastDims)
                          bLoc == operandLoc(loc, Len(b.shape), bBroadcastDims)
                      IN  opFn[<< get(h, a, aLoc), get(h, b, bLoc) >>]]
       IN  Return(Alloc(h, vals), NDArray(NewBuf(h), newShape, dtype))

\* scaledArrayAdd: c1 * a + c2 * b
scaledArrayAdd(h, c1, a, c2, b) ==
  LET c1Val == getValues(h, c1)[1]
      c2Val == getValues(h, c2)[1]
      opFn == [v \in ValuePairs(h, a, b) |->
                 Plus(Times(c1Val, v[1]), Times(c2Val, v[2]))]
  IN  broadcastedBinaryOp(h, a, b, "float32", opFn)

add(h, a, b) == scaledArrayAdd(h, ONE, a, ONE, b)

subtract(h, a, b) == scaledArrayAdd(h, ONE, a, NEG_ONE, b)

\* multiply: aValues[i % a.size] * bValues[i % b.size]
multiply(h, a, b) ==
  IF broadcastIncompatible(a.shape, b.shape) THEN Throw(h)
  ELSE LET newShape == getBroadcastShape(a.shape, b.shape)
           aValues == getValues(h, a)
           bValues == getValues(h, b)
           newValues == [p \in 1..sizeFromShape(newShape) |->
                           Times(aValues[((p - 1) % Len(aValues)) + 1],
                                 bValues[((p - 1) % Len(bValues)) + 1])]
       IN  Return(Alloc(h, newValues), NDArray(NewBuf(h), newShape, "float32"))

\* u / v of two floats; the finite operands drawn are a multiple u of a
\* divisor v, where the quotient is exact
Quotient(u, v) == IF isNaN(u) \/ isNaN(v) THEN NaN ELSE u \div v

\* divide: aValues[i % a.size] / bValues[i % b.size]
divide(h, a, b) ==
  IF broadcastIncompatible(a.shape, b.shape) THEN Throw(h)
  ELSE LET newShape == getBroadcastShape(a.shape, b.shape)
           aValues == getValues(h, a)
           bValues == getValues(h, b)
           newValues == [p \in 1..sizeFromShape(newShape) |->
                           Quotient(aValues[((p - 1) % Len(aValues)) + 1],
                                    bValues[((p - 1) % Len(bValues)) + 1])]
       IN  Return(Alloc(h, newValues), NDArray(NewBuf(h), newShape, "float32"))

\* a neg that changes no sign: multiply by Scalar.ONE
negByOne(h, x) == multiply(h, ONE, x)

neg(h, x) == multiply(h, NEG_ONE, x)

square(h, x) ==
  LET values == getValues(h, x)
  IN  Return(Alloc(h, [i \in 1..Len(values) |-> Times(values[i], values[i])]),
             NDArray(NewBuf(h), x.shape, "float32"))

\* util.isValNaN and util.getNaN: the NaN of a dtype
NAN_BOOL == 255
isValNaN(val, dtype) ==
  \/ isNaN(val)
  \/ dtype = "int32" /\ val = NAN_INT32
  \/ dtype = "bool" /\ val = NAN_BOOL
getNaN(dtype) ==
  IF dtype = "float32" THEN NaN
  ELSE IF dtype = "int32" THEN NAN_INT32 ELSE NAN_BOOL

relu(h, x) ==
  LET inVals == getValues(h, x)
  IN  Return(Alloc(h, [i \in 1..Len(inVals) |->
                         IF isValNaN(inVals[i], x.dtype) THEN getNaN(x.dtype)
                         ELSE Max2(0, inVals[i])]),
             NDArray(NewBuf(h), x.shape, x.dtype))

\* an equal for which NaN is a value like the others, equal to nothing
equalPlain(h, a, b) ==
  LET opFn == [v \in ValuePairs(h, a, b) |->
                 IF ~isNaN(v[1]) /\ v[1] = v[2] THEN 1 ELSE 0]
  IN  broadcastedBinaryOp(h, a, b, "bool", opFn)

\* equal: the NaN of bool where either element is the NaN of its dtype,
\* aVal === bVal otherwise
equal(h, a, b) ==
  LET opFn == [v \in ValuePairs(h, a, b) |->
                 IF isValNaN(v[1], a.dtype) \/ isValNaN(v[2], b.dtype)
                 THEN getNaN("bool")
                 ELSE IF v[1] = v[2] THEN 1 ELSE 0]
  IN  broadcastedBinaryOp(h, a, b, "bool", opFn)

---------------------------------------------------------------------------
(* sum, tile, transpose, oneHot, multinomial.                              *)

\* MatrixOrientation
REGULAR == "REGULAR"
TRANSPOSED == "TRANSPOSED"

\* matrix.get(i, j) of a rank-2 tensor: the element at offset
\* i * shape[1] + j, and undefined, NaN in a product, beyond the values
get2(h, matrix, i, j) ==
  LET index == i * matrix.shape[2] + j
  IN  IF index + 1 \in DOMAIN h[matrix.buf] THEN h[matrix.buf][index + 1] ELSE NaN

\* a getter that reads every operand as a regular one
getterNormalOnly(h, matrix, orientation, i, j) == get2(h, matrix, i, j)

\* aGetter / bGetter: normalGetter of a regular operand, transposedGetter
\* of a transposed one
getter(h, matrix, orientation, i, j) ==
  IF orientation = REGULAR THEN get2(h, matrix, i, j) ELSE get2(h, matrix, j, i)

\* the loop of matMul over k, from k on, with the running sum
RECURSIVE matMulScan(_, _, _, _, _, _, _, _, _)
matMulScan(h, a, b, aOrientation, bOrientation, i, j, k, sumV) ==
  IF k >= (IF aOrientation = REGULAR THEN a.shape[2] ELSE a.shape[1]) THEN sumV
  ELSE matMulScan(h, a, b, aOrientation, bOrientation, i, j, k + 1,
                  Plus(sumV, Times(getter(h, a, aOrientation, i, k),
                                   getter(h, b, bOrientation, k, j))))

matMul(h, a, b, aOrientation, bOrientation) ==
  LET leftDim == IF aOrientation = REGULAR THEN a.shape[1] ELSE a.shape[2]
      rightDim == IF bOrientation = REGULAR THEN b.shape[2] ELSE b.shape[1]
      values == [index \in 1..(leftDim * rightDim) |->
                   matMulScan(h, a, b, aOrientation, bOrientation,
                              (index - 1) \div rightDim, (index - 1) % rightDim,
                              0, 0)]
  IN  Return(Alloc(h, values), NDArray(NewBuf(h), << leftDim, rightDim >>, "float32"))

\* the variant of sumScan that reads every window at offset 0
RECURSIVE sumScanAtZero(_, _, _, _, _)
sumScanAtZero(aVals, offset, reduceSize, j, sumV) ==
  IF j >= reduceSize THEN sumV
  ELSE sumScanAtZero(aVals, offset, reduceSize, j + 1, Plus(sumV, aVals[j + 1]))

\* the inner loop of sum, from j on, with the running sum
RECURSIVE sumScan(_, _, _, _, _)
sumScan(aVals, offset, reduceSize, j, sumV) ==
  IF j >= reduceSize THEN sumV
  ELSE sumScan(aVals, offset, reduceSize, j + 1, Plus(sumV, aVals[offset + j + 1]))

\* SumTypesMap: the dtype of the sum of a tensor of that dtype
SumTypesMap(dtype) == IF dtype = "float32" THEN "float32" ELSE "int32"

\* a number beyond 32 bits is held as hi * Half + lo
Half == 65536

\* the inner loop of sum over integer elements, from j on: the running
\* sum is a double, exact on integers, held as << hi, lo >>
RECURSIVE sumScanWide(_, _, _, _, _)
sumScanWide(aVals, offset, reduceSize, j, sumV) ==
  IF j >= reduceSize THEN sumV
  ELSE LET value == aVals[offset + j + 1]
       IN  sumScanWide(aVals, offset, reduceSize, j + 1,
                       << sumV[1] + (value \div Half), sumV[2] + (value % Half) >>)

\* the store of the number hi * Half + lo into an Int32Array: the number
\* modulo 2^32, in -2^31 .. 2^31 - 1
toInt32(wide) ==
  LET hi == wide[1] + (wide[2] \div Half)
      lo == wide[2] % Half
  IN  ((((hi + (Half \div 2)) % Half) - (Half \div 2)) * Half) + lo

sum(h, x, axes) ==
  IF ~axesAreInnerMostDims(axes, Len(x.shape)) THEN Throw(h)
  ELSE LET shapes == computeOutAndReduceShapes(x.shape, axes)
           outShape == shapes[1]
           resultDtype == SumTypesMap(x.dtype)
           reduceSize == sizeFromShape(shapes[2])
           aVals == getValues(h, x)
           vals == [i \in 1..sizeFromShape(outShape) |->
                      IF resultDtype = "float32"
                      THEN sumScan(aVals, (i - 1) * reduceSize, reduceSize, 0, 0)
                      ELSE toInt32(sumScanWide(aVals, (i - 1) * reduceSize,
                                               reduceSize, 0, << 0, 0 >>))]
       IN  Return(Alloc(h, vals), NDArray(NewBuf(h), outShape, resultDtype))

\* the dtypes tile has a typed array for
TileDtypes == { "float32", "int32", "bool" }

tile(h, x, reps) ==
  IF x.dtype \notin TileDtypes THEN Throw(h)
  ELSE LET newShape == [i \in 1..Len(x.shape) |-> x.shape[i] * reps[i]]
           values == getValues(h, x)
           resultValues ==
             [p \in 1..sizeFromShape(newShape) |->
                LET newLoc == indexToLoc(newShape, p - 1)
                    originalLoc == [i \in 1..Len(x.shape) |-> newLoc[i] % x.shape[i]]
                IN  values[locToIndex(x.shape, originalLoc) + 1]]
       IN  Return(Alloc(h, resultValues), NDArray(NewBuf(h), newShape, x.dtype))

\* an index computed from the location of x as it is, not permuted
transposeIndexUnpermuted(shape, newShape, perm, i) ==
  locToIndex(newShape, indexToLoc(shape, i))

\* the index of the result that element i of x is written to
transposeIndex(shape, newShape, perm, i) ==
  LET loc == indexToLoc(shape, i)
      newLoc == [d \in 1..Len(loc) |-> loc[perm[d] + 1]]
  IN  locToIndex(newShape, newLoc)

\* transpose: resultValues[newIndex] = values[i] for i = 0, 1, ...: an
\* element of the result holds the last value written to it, 0 if none was
transpose(h, x, perm) ==
  LET newShape == [i \in 1..Len(x.shape) |-> x.shape[perm[i] + 1]]
      values == getValues(h, x)
      newIndex == [i \in 0..(Len(values) - 1) |->
                     transposeIndex(x.shape, newShape, perm, i)]
      resultValues ==
        [p \in 1..Len(values) |->
           LET writers == { i \in DOMAIN newIndex : newIndex[i] = p - 1 }
           IN  IF writers = {} THEN 0
               ELSE values[(CHOOSE i \in writers : \A j \in writers : j <= i) + 1]]
  IN  Return(Alloc(h, resultValues), NDArray(NewBuf(h), newShape, "float32"))

\* a oneHot that writes every onValue to the first row: res[indices.get(event)]
oneHotFirstRow(h, indices, depth, onValue, offValue) ==
  LET idx == getValues(h, indices)
      res == [p \in 1..(Len(idx) * depth) |->
                IF \E event \in 0..(Len(idx) - 1) : idx[event + 1] = p - 1
                THEN onValue ELSE offValue]
  IN  Return(Alloc(h, res), NDArray(NewBuf(h), <<Len(idx), depth>>, "float32"))

\* oneHot: res.fill(offValue), then res[event * depth + indices.get(event)]
\* = onValue; a write outside the typed array changes no element
oneHot(h, indices, depth, onValue, offValue) ==
  LET idx == getValues(h, indices)
      res == [p \in 1..(Len(idx) * depth) |->
                IF \E event \in 0..(Len(idx) - 1) :
                     /\ ~isNaN(idx[event + 1])
                     /\ event * depth + idx[event + 1] = p - 1
                THEN onValue ELSE offValue]
  IN  Return(Alloc(h, res), NDArray(NewBuf(h), <<Len(idx), depth>>, "float32"))

\* Probabilities and draws are counted in units of 1 / ProbUnit.
ProbUnit == 2

\* seedrandom.alea(seed.toString()): draw number n (0-based) of the
\* generator built from the seed, a number of [0, 1)
alea(seed, n) == (seed + n) % ProbUnit

\* the cdf of the batch row at offset, up to the event (0-based)
RECURSIVE cdfAt(_, _, _)
cdfAt(probVals, offset, event) ==
  IF event = 0 THEN probVals[offset + 1]
  ELSE Plus(cdfAt(probVals, offset, event - 1), probVals[offset + event + 1])

\* a scan in which the last match wins
sampleEventLastMatch(cdf, r) ==
  IF \E event \in 1..Len(cdf) : Lt(r, cdf[event])
  THEN (CHOOSE event \in 1..Len(cdf) :
          /\ Lt(r, cdf[event])
          /\ \A e \in (event + 1)..Len(cdf) : ~Lt(r, cdf[e])) - 1
  ELSE Len(cdf)

\* the event of one sample: the first whose cdf exceeds the draw, the last
\* event if none does
sampleEvent(cdf, r) ==
  IF \E event \in 1..Len(cdf) : Lt(r, cdf[event])
  THEN (CHOOSE event \in 1..Len(cdf) :
          /\ Lt(r, cdf[event])
          /\ \A e \in 1..(event - 1) : ~Lt(r, cdf[e])) - 1
  ELSE Len(cdf)

\* a draw of a generator that outlives the calls: its draws go on from one
\* call to the next, as many as typed arrays were allocated since
aleaShared(h, seed, n) == alea(seed, n + Len(h))

\* random(): draw number n of the generator the call builds from the seed
draw(h, seed, n) == alea(seed, n)

\* a multinomial that builds the generator once, before the loop over the
\* batch rows: the draws go on from one row to the next
multinomialOneGenerator(h, probabilities, numSamples, seed) ==
  LET batchSize == probabilities.shape[1]
      numEvents == probabilities.shape[2]
      probVals == getValues(h, probabilities)
      cdf(b) == [event \in 1..(numEvents - 1) |->
                   cdfAt(probVals, b * numEvents, event - 1)]
      resVals == [p \in 1..(batchSize * numSamples) |->
                    sampleEvent(cdf((p - 1) \div numSamples),
                                draw(h, seed, p - 1))]
  IN  Return(Alloc(h, resVals) \o [b \in 1..batchSize |-> cdf(b - 1)],
             NDArray(NewBuf(h), <<batchSize, numSamples>>, "int32"))

\* multinomial: the result, then one cdf array for each batch row
multinomial(h, probabilities, numSamples, seed) ==
  LET batchSize == probabilities.shape[1]
      numEvents == probabilities.shape[2]
      probVals == getValues(h, probabilities)
      cdf(b) == [event \in 1..(numEvents - 1) |->
                   cdfAt(probVals, b * numEvents, event - 1)]
      resVals == [p \in 1..(batchSize * numSamples) |->
                    sampleEvent(cdf((p - 1) \div numSamples),
                                draw(h, seed, (p - 1) % numSamples))]
  IN  Return(Alloc(h, resVals) \o [b \in 1..batchSize |-> cdf(b - 1)],
             NDArray(NewBuf(h), <<batchSize, numSamples>>, "int32"))

---------------------------------------------------------------------------
(* A call of a kernel: the heap becomes the one the call leaves, and the   *)
(* caller learns the tensors the call returns.                             *)

Call(name, a, outcome) ==
  /\ op' = name
  /\ args' = a
  /\ heap' = outcome.heap
  /\ ret' = [threw |-> outcome.threw, result |-> outcome.result]
  /\ tensors' = IF outcome.threw THEN tensors
                ELSE IF DOMAIN outcome.result = {"buf", "shape", "dtype"}
                     THEN tensors \cup {outcome.result}
                     ELSE tensors \cup {outcome.result[f] : f \in DOMAIN outcome.result}

NoCall == [threw |-> FALSE, result |-> NoResult]

---------------------------------------------------------------------------
(* The reductions on one drawn input.                                      *)

\* the shapes of rank 1 and 2 with at most MaxSize elements
ReduceShapes ==
  { <<n>> : n \in 1..MaxSize }
    \cup UNION { { <<m, n>> : n \in 1..(MaxSize \div m) } : m \in 1..MaxSize }

\* the non-empty increasing runs of axes of a tensor of that rank
AxesOf(rank) ==
  IF rank = 1 THEN { <<0>> } ELSE { <<0>>, <<1>>, <<0, 1>> }

InitReduce ==
  /\ \E shape \in ReduceShapes :
       \E vals \in SeqsOf(Floats, sizeFromShape(shape)) :
         \E axes \in AxesOf(Len(shape)) :
           /\ heap = StaticHeap \o << vals >>
           /\ tensors = { NDArray(In(1), shape, "float32") }
           /\ args = [x |-> NDArray(In(1), shape, "float32"), axes |-> axes]
  /\ op = "init"
  /\ ret = NoCall

Min == op = "init" /\ Call("min", args, min(heap, args.x, args.axes))
Max == op = "init" /\ Call("max", args, max(heap, args.x, args.axes))
ArgMin == op = "init" /\ Call("argMin", args, argMin(heap, args.x, args.axes))
ArgMax == op = "init" /\ Call("argMax", args, argMax(heap, args.x, args.axes))

NextReduce == Min \/ Max \/ ArgMin \/ ArgMax

SpecReduce == InitReduce /\ [][NextReduce]_vars

---------------------------------------------------------------------------
(* The reductions: what the claims say of them.                            *)

\* the reduce-window of output element i (0-based) of the reduction drawn
ReduceSizeOf(a) == sizeFromShape(computeOutAndReduceShapes(a.x.shape, a.axes)[2])
WindowOf(a, i) ==
  { (i * ReduceSizeOf(a)) + j + 1 : j \in 0..(ReduceSizeOf(a) - 1) }
\* the values the call returned and the values of its input
OutVals == heap[ret.result.buf]
InVals == heap[args.x.buf]
Returned(name) == op = name /\ ~ret.threw
HasNaN(vals, S) == \E p \in S : isNaN(vals[p])

\* C2: min of a NaN-free tensor: output element i is the minimum of the
\* reduceSize input elements at offsets [i*reduceSize, (i+1)*reduceSize).
C2_MinIsWindowMin ==
  (Returned("min") /\ ~HasNaN(InVals, DOMAIN InVals)) =>
    \A i \in 0..(Len(OutVals) - 1) :
      /\ \E p \in WindowOf(args, i) : OutVals[i + 1] = InVals[p]
      /\ \A p \in WindowOf(args, i) : OutVals[i + 1] <= InVals[p]

\* C3: min and max: an output element is NaN if and only if its own
\* reduce-window holds a NaN.
C3_NaNIffOwnWindow ==
  (Returned("min") \/ Returned("max")) =>
    \A i \in 0..(Len(OutVals) - 1) :
      isNaN(OutVals[i + 1]) <=> HasNaN(InVals, WindowOf(args, i))

\* C4: argMax and argMin: an output element whose reduce-window holds a
\* NaN, wherever it sits, is NAN_INT32 and no index of [0, reduceSize).
C4_ArgNaNIsSentinel ==
  (Returned("argMax") \/ Returned("argMin")) =>
    \A i \in 0..(Len(OutVals) - 1) :
      HasNaN(InVals, WindowOf(args, i)) =>
        /\ OutVals[i + 1] = NAN_INT32
        /\ OutVals[i + 1] \notin 0..(ReduceSizeOf(args) - 1)

\* argMax has met a window of three or more elements whose only NaN comes
\* in the middle, after a larger and before a still larger value
C4_Witness ==
  /\ Returned("argMax")
  /\ ReduceSizeOf(args) >= 3
  /\ \E i \in 0..(Len(OutVals) - 1) :
       LET o == i * ReduceSizeOf(args)
       IN  /\ InVals[o + 1] = 1
           /\ isNaN(InVals[o + 2])
           /\ InVals[o + 3] = 2
           /\ OutVals[i + 1] = NAN_INT32

---------------------------------------------------------------------------
(* Top-k on one drawn input.                                               *)

\* Largest number of elements of a tensor drawn as an input of topK.
MaxLen == 3

\* the tensor of the documented example
ExampleX == <<5, 1, 4, 2, 3>>

TopKInputs ==
  UNION { SeqsOf(Finite, n) : n \in 1..MaxLen } \cup { ExampleX }

InitTopK ==
  /\ \E vals \in TopKInputs :
       \E k \in -1..(Len(vals) + 1) :
         /\ heap = StaticHeap \o << vals >>
         /\ tensors = { NDArray(In(1), <<Len(vals)>>, "float32") }
         /\ args = [x |-> NDArray(In(1), <<Len(vals)>>, "float32"), k |-> k]
  /\ op = "init"
  /\ ret = NoCall

TopK ==
  /\ op = "init"
  /\ \E sorted \in sort(valuesAndIndicesOf(getValues(heap, args.x))) :
       Call("topK", args, topK(heap, args.x, args.k, sorted))

TopKValues ==
  /\ op = "init"
  /\ \E sorted \in sort(valuesAndIndicesOf(getValues(heap, args.x))) :
       Call("topKValues", args, topKValues(heap, args.x, args.k, sorted))

TopKIndices ==
  /\ op = "init"
  /\ \E sorted \in sort(valuesAndIndicesOf(getValues(heap, args.x))) :
       Call("topKIndices", args, topKIndices(heap, args.x, args.k, sorted))

NextTopK == TopK \/ TopKValues \/ TopKIndices

SpecTopK == InitTopK /\ [][NextTopK]_vars

\* C5: topKValues and topKIndices fail for every k outside 0 < k <= size.
C5_BadKFails ==
  ((op = "topKValues" \/ op = "topKIndices")
     /\ ~(0 < args.k /\ args.k <= Len(InVals))) => ret.threw

TopVals == heap[ret.result.values.buf]
TopIdx == heap[ret.result.indices.buf]

\* C6: topK with 0 < k <= size on a NaN-free tensor: the values are in
\* non-increasing order and are the k largest, equal values come in
\* increasing order of input index, the indices are pairwise distinct, and
\* values[i] = x[indices[i]].
C6_TopKSortedStable ==
  (Returned("topK") /\ ~HasNaN(InVals, DOMAIN InVals)) =>
    /\ Len(TopVals) = args.k /\ Len(TopIdx) = args.k
    /\ \A i \in 1..args.k : TopIdx[i] \in 0..(Len(InVals) - 1)
    /\ \A i \in 1..args.k : TopVals[i] = InVals[TopIdx[i] + 1]
    /\ \A i, j \in 1..args.k : i < j =>
         /\ TopVals[i] >= TopVals[j]
         /\ TopIdx[i] # TopIdx[j]
         /\ (TopVals[i] = TopVals[j] => TopIdx[i] < TopIdx[j])
    /\ \A p \in 1..Len(InVals) :
         (\A i \in 1..args.k : TopIdx[i] # p - 1) =>
           \A i \in 1..args.k : InVals[p] <= TopVals[i]

\* C7: topK of [5,1,4,2,3] with k = 3 gives values [5,4,3] and indices
\* [0,3,4] (as claimed).
C7_ExampleAsClaimed ==
  (Returned("topK") /\ InVals = ExampleX /\ args.k = 3) =>
    (TopVals = <<5, 4, 3>> /\ TopIdx = <<0, 3, 4>>)

\* C7, amended: topK of [5,1,4,2,3] with k = 3 gives values [5,4,3] and
\* indices [0,2,4], the positions of 5, 4 and 3 in the input.
C7_Example ==
  (Returned("topK") /\ InVals = ExampleX /\ args.k = 3) =>
    (TopVals = <<5, 4, 3>> /\ TopIdx = <<0, 2, 4>>)

C7_Witness ==
  Returned("topK") /\ InVals = ExampleX /\ args.k = 3 /\ TopVals = <<5, 4, 3>>

---------------------------------------------------------------------------
(* Convolution geometries.                                                 *)

\* Largest input height and width, filter height and width, stride, padding
\* before, and output height and width drawn.
MaxIn == 2
MaxFilter == 2
MaxStride == 2
MaxPad == 1
MaxOut == 2
\* Largest batch size and number of channels drawn.
MaxChan == 2
\* Largest number of elements of a tensor drawn as an input of a
\* convolution or of a pooling.
MaxElems == 4

\* the geometry along one axis: the output size is the number of places of
\* the filter on the input padded before by `pad` and after by as much or
\* one more
AxisGeoms ==
  { g \in [in : 1..MaxIn, filter : 1..MaxFilter, stride : 1..MaxStride,
           pad : 0..MaxPad, out : 1..MaxOut] :
      \E after \in {g.pad, g.pad + 1} :
        /\ g.in + g.pad + after >= g.filter
        /\ g.out = ((g.in + g.pad + after - g.filter) \div g.stride) + 1 }

\* the Conv2DInfo of a row geometry, a column geometry, a batch size and
\* the channels
Conv2DInfo(r, c, batchSize, inChannels, outChannels) ==
  [ batchSize |-> batchSize, inHeight |-> r.in, inWidth |-> c.in,
    inChannels |-> inChannels, outHeight |-> r.out, outWidth |-> c.out,
    outChannels |-> outChannels, filterHeight |-> r.filter,
    filterWidth |-> c.filter, strideHeight |-> r.stride,
    strideWidth |-> c.stride, padInfo |-> [top |-> r.pad, left |-> c.pad],
    inShape |-> <<batchSize, r.in, c.in, inChannels>>,
    outShape |-> <<batchSize, r.out, c.out, outChannels>>,
    filterShape |-> <<r.filter, c.filter, inChannels, outChannels>> ]

ConvInfos ==
  { ci \in { Conv2DInfo(r, c, b, d1, d2) :
               r \in AxisGeoms, c \in AxisGeoms,
               b \in 1..MaxChan, d1 \in 1..MaxChan, d2 \in 1..MaxChan } :
      /\ sizeFromShape(ci.inShape) <= MaxElems
      /\ sizeFromShape(ci.outShape) <= MaxElems
      /\ sizeFromShape(ci.filterShape) <= MaxElems }

---------------------------------------------------------------------------
(* conv2d on one drawn input.                                              *)

InitConv ==
  /\ \E ci \in ConvInfos :
       \E xv \in SeqsOf(Finite, sizeFromShape(ci.inShape)) :
         \E fv \in SeqsOf(Finite, sizeFromShape(ci.filterShape)) :
           \E bv \in SeqsOf(Finite, ci.outChannels) \cup { <<>> } :
             /\ heap = StaticHeap \o (IF bv = <<>> THEN << xv, fv >>
                                      ELSE << xv, fv, bv >>)
             /\ tensors = { NDArray(In(1), ci.inShape, "float32"),
                            NDArray(In(2), ci.filterShape, "float32") }
                            \cup (IF bv = <<>> THEN {}
                                  ELSE { NDArray(In(3), <<ci.outChannels>>, "float32") })
             /\ args = [ x |-> NDArray(In(1), ci.inShape, "float32"),
                         filter |-> NDArray(In(2), ci.filterShape, "float32"),
                         bias |-> IF bv = <<>> THEN Null
                                  ELSE NDArray(In(3), <<ci.outChannels>>, "float32"),
                         convInfo |-> ci ]
  /\ op = "init"
  /\ ret = NoCall

Conv2d ==
  /\ op = "init"
  /\ Call("conv2d", args,
          conv2d(heap, args.x, args.filter, args.bias, args.convInfo))

NextConv == Conv2d

SpecConv == InitConv /\ [][NextConv]_vars

\* the input element at (b, xR, xC, d1) of the input padded with zeros
Padded(b, xR, xC, d1) ==
  IF xR \in 0..(args.convInfo.inHeight - 1) /\ xC \in 0..(args.convInfo.inWidth - 1)
  THEN get4(heap, args.x, b, xR, xC, d1)
  ELSE 0

\* the convolution of the zero-padded input at (b, yR, yC, d2)
ConvOfPadded(b, yR, yC, d2) ==
  LET ci == args.convInfo
      term(e) == Padded(b, ci.strideHeight * yR - ci.padInfo.top + e[1],
                        ci.strideWidth * yC - ci.padInfo.left + e[2], e[3])
                   * get4(heap, args.filter, e[1], e[2], e[3], d2)
  IN  (IF args.bias # Null THEN heap[args.bias.buf][d2 + 1] ELSE 0)
        + SumFn([e \in (0..(ci.filterHeight - 1)) \X (0..(ci.filterWidth - 1))
                         \X (0..(ci.inChannels - 1)) |-> term(e)])

\* C1: conv2d: at every output location the result is the bias plus the
\* convolution of the zero-padded input, whatever the geometry, padTop
\* different from padLeft included.
C1_ConvIsPaddedConv ==
  Returned("conv2d") =>
    \A b \in 0..(args.convInfo.batchSize - 1) :
      \A yR \in 0..(args.convInfo.outHeight - 1) :
        \A yC \in 0..(args.convInfo.outWidth - 1) :
          \A d2 \in 0..(args.convInfo.outChannels - 1) :
            get4(heap, ret.result, b, yR, yC, d2) = ConvOfPadded(b, yR, yC, d2)

\* the same on the geometries whose padTop equals padLeft
C1_ConvIsPaddedConvEqualPads ==
  (Returned("conv2d") /\ args.convInfo.padInfo.top = args.convInfo.padInfo.left) =>
    C1_ConvIsPaddedConv

---------------------------------------------------------------------------
(* Pooling on one drawn input.                                             *)

PoolInfos == { ci \in ConvInfos : ci.inChannels = ci.outChannels }

\* the gradient drawn for an output of n elements: a different power of two
\* at each element, so that a sum of some of them tells which they are
PowersOfTwo(n) == [p \in 1..n |-> 2 ^ (p - 1)]

InitPool ==
  /\ \E ci \in PoolInfos :
       \E xv \in SeqsOf(Floats, sizeFromShape(ci.inShape)) :
         \E dyv \in { PowersOfTwo(sizeFromShape(ci.outShape)) } :
           /\ heap = StaticHeap \o << xv, dyv >>
           /\ tensors = { NDArray(In(1), ci.inShape, "float32"),
                          NDArray(In(2), ci.outShape, "float32") }
           /\ args = [ x |-> NDArray(In(1), ci.inShape, "float32"),
                       dy |-> NDArray(In(2), ci.outShape, "float32"),
                       convInfo |-> ci ]
  /\ op = "init"
  /\ ret = NoCall

MaxPool ==
  /\ op = "init"
  /\ Call("maxPool", args, maxPool(heap, args.x, args.convInfo))

MaxPoolBackprop ==
  /\ op = "maxPool"
  /\ Call("maxPoolBackprop", args,
          maxPoolBackprop(heap, args.dy, args.x, args.convInfo))

NextPool == MaxPool \/ MaxPoolBackprop

SpecPool == InitPool /\ [][NextPool]_vars

\* the input positions of the window of output location (yR, yC)
PoolWindow(yR, yC) == poolRows(args.convInfo, yR) \X poolCols(args.convInfo, yC)

\* position q holds the one maximum of the window of (b, yR, yC, d)
IsUniqueMax(b, yR, yC, d, q) ==
  /\ q \in PoolWindow(yR, yC)
  /\ \A w \in PoolWindow(yR, yC) : ~isNaN(get4(heap, args.x, b, w[1], w[2], d))
  /\ \A w \in PoolWindow(yR, yC) \ {q} :
       get4(heap, args.x, b, w[1], w[2], d) < get4(heap, args.x, b, q[1], q[2], d)

OutLocs ==
  (0..(args.convInfo.batchSize - 1)) \X (0..(args.convInfo.outHeight - 1))
    \X (0..(args.convInfo.outWidth - 1)) \X (0..(args.convInfo.inChannels - 1))

InLocs ==
  (0..(args.convInfo.batchSize - 1)) \X (0..(args.convInfo.inHeight - 1))
    \X (0..(args.convInfo.inWidth - 1)) \X (0..(args.convInfo.inChannels - 1))

UniqueMaxima ==
  \A o \in OutLocs : \E q \in PoolWindow(o[2], o[3]) :
    IsUniqueMax(o[1], o[2], o[3], o[4], q)

\* C10: maxPool then maxPoolBackprop, every window with one maximum: dx at
\* an input position is the sum of the dy of the windows whose maximum it
\* is, so zero where it is the maximum of none.
C10_BackpropRoutesToMax ==
  (Returned("maxPoolBackprop") /\ UniqueMaxima) =>
    \A i \in InLocs :
      get4(heap, ret.result, i[1], i[2], i[3], i[4])
        = SumFn([o \in { v \in OutLocs :
                          /\ v[1] = i[1] /\ v[4] = i[4]
                          /\ IsUniqueMax(v[1], v[2], v[3], v[4], <<i[2], i[3]>>) }
                  |-> get4(heap, args.dy, o[1], o[2], o[3], o[4])])

\* two overlapping windows have their maximum at the same input position,
\* which is not the first of the input, under a padTop other than padLeft
C10_Witness ==
  /\ Returned("maxPoolBackprop") /\ UniqueMaxima
  /\ args.convInfo.padInfo.top # args.convInfo.padInfo.left
  /\ \E i \in InLocs :
       /\ <<i[2], i[3]>> # <<0, 0>>
       /\ Cardinality({ v \in OutLocs :
                          /\ v[1] = i[1] /\ v[4] = i[4]
                          /\ IsUniqueMax(v[1], v[2], v[3], v[4], <<i[2], i[3]>>) }) >= 2
       /\ get4(heap, ret.result, i[1], i[2], i[3], i[4]) >= 3

---------------------------------------------------------------------------
(* The backend under a caller: the caller makes tensors, calls kernels on  *)
(* the tensors it holds, and writes to the tensors the kernels return.     *)

\* Largest number of typed arrays a caller has on the heap when it makes a
\* call.
MaxBufs == 3

\* the tensors a caller makes: two elements, of rank 1, 2 and 4
MakeShapes == { <<2>>, <<1, 2>>, <<1, 1, 2, 1>> }

Init ==
  /\ heap = StaticHeap
  /\ tensors = {}
  /\ op = "init"
  /\ args = <<>>
  /\ ret = NoCall

\* the caller may allocate
Room == Len(heap) < Len(StaticHeap) + MaxBufs

\* the values of the tensors a caller makes
MakeValues == { <<1, 2>> }

\* NDArray.new(values): the caller makes a tensor of its own
Make ==
  /\ Room
  /\ \E shape \in MakeShapes :
       \E vals \in MakeValues :
         Call("make", [shape |-> shape, values |-> vals],
              Return(Alloc(heap, vals), NDArray(NewBuf(heap), shape, "float32")))

\* the tensors a call may be given: those held that have elements, and few
\* enough for the call to be followed
Operands == { t \in tensors : sizeFromShape(t.shape) \in 1..MaxSize }

OfRank(n) == { t \in Operands : Len(t.shape) = n }

\* some runs of axes of a tensor of that rank: the first axis, the last
\* one, all of them
SomeAxes(rank) ==
  IF rank = 0 THEN { <<>> }
  ELSE { <<0>>, <<rank - 1>>, [i \in 1..rank |-> i - 1] }

\* the permutations of the axes of a tensor of that rank
Perms(rank) == { [i \in 1..rank |-> f[i] - 1] : f \in Orderings(rank) }

CallClone ==
  Room /\ \E x \in Operands : Call("clone", [x |-> x], clone(heap, x))

CallSlice1D ==
  /\ Room
  /\ \E x \in OfRank(1) : \E begin \in 0..(x.shape[1] - 1) :
       \E size \in 1..(x.shape[1] - begin) :
         Call("slice1D", [x |-> x, begin |-> begin, size |-> size],
              slice1D(heap, x, begin, size))

CallSlice2D ==
  /\ Room
  /\ \E x \in OfRank(2) :
       \E begin \in (0..(x.shape[1] - 1)) \X (0..(x.shape[2] - 1)) :
         \E size \in (1..(x.shape[1] - begin[1])) \X (1..(x.shape[2] - begin[2])) :
           Call("slice2D", [x |-> x, begin |-> begin, size |-> size],
                slice2D(heap, x, begin, size))

CallConcat1D ==
  /\ Room
  /\ \E a, b \in OfRank(1) :
       Call("concat1D", [a |-> a, b |-> b], concat1D(heap, a, b))

CallConcat2D ==
  /\ Room
  /\ \E a, b \in OfRank(2) : \E axis \in 0..1 :
       /\ a.shape[2 - axis] = b.shape[2 - axis]
       /\ Call("concat2D", [a |-> a, b |-> b, axis |-> axis],
               concat2D(heap, a, b, axis))

CallAdd ==
  Room /\ \E a, b \in Operands : Call("add", [a |-> a, b |-> b], add(heap, a, b))

CallSubtract ==
  /\ Room
  /\ \E a, b \in Operands :
       Call("subtract", [a |-> a, b |-> b], subtract(heap, a, b))

CallMultiply ==
  /\ Room
  /\ \E a, b \in Operands :
       Call("multiply", [a |-> a, b |-> b], multiply(heap, a, b))

CallNeg == Room /\ \E x \in Operands : Call("neg", [x |-> x], neg(heap, x))

CallSquare ==
  Room /\ \E x \in Operands : Call("square", [x |-> x], square(heap, x))

CallRelu == Room /\ \E x \in Operands : Call("relu", [x |-> x], relu(heap, x))

CallSum ==
  /\ Room
  /\ \E x \in Operands : \E axes \in SomeAxes(Len(x.shape)) :
       Call("sum", [x |-> x, axes |-> axes], sum(heap, x, axes))

CallMin ==
  /\ Room
  /\ \E x \in Operands : \E axes \in SomeAxes(Len(x.shape)) :
       Call("min", [x |-> x, axes |-> axes], min(heap, x, axes))

CallMax ==
  /\ Room
  /\ \E x \in Operands : \E axes \in SomeAxes(Len(x.shape)) :
       Call("max", [x |-> x, axes |-> axes], max(heap, x, axes))

CallArgMin ==
  /\ Room
  /\ \E x \in Operands : \E axes \in SomeAxes(Len(x.shape)) :
       Call("argMin", [x |-> x, axes |-> axes], argMin(heap, x, axes))

CallArgMax ==
  /\ Room
  /\ \E x \in Operands : \E axes \in SomeAxes(Len(x.shape)) :
       Call("argMax", [x |-> x, axes |-> axes], argMax(heap, x, axes))

CallTopKValues ==
  /\ Room
  /\ \E x \in Operands : \E k \in -1..(sizeFromShape(x.shape) + 1) :
       \E sorted \in sort(valuesAndIndicesOf(getValues(heap, x))) :
         Call("topKValues", [x |-> x, k |-> k], topKValues(heap, x, k, sorted))

CallTopKIndices ==
  /\ Room
  /\ \E x \in Operands : \E k \in -1..(sizeFromShape(x.shape) + 1) :
       \E sorted \in sort(valuesAndIndicesOf(getValues(heap, x))) :
         Call("topKIndices", [x |-> x, k |-> k], topKIndices(heap, x, k, sorted))

CallConv2d ==
  /\ Room
  /\ \E x \in OfRank(4) : \E filter \in OfRank(4) :
       \E ci \in { c \in ConvInfos :
                     c.inShape = x.shape /\ c.filterShape = filter.shape } :
         \E bias \in { Null } \cup { t \in OfRank(1) : t.shape[1] = ci.outChannels } :
           Call("conv2d",
                [x |-> x, filter |-> filter, bias |-> bias, convInfo |-> ci],
                conv2d(heap, x, filter, bias, ci))

CallMaxPool ==
  /\ Room
  /\ \E x \in OfRank(4) : \E ci \in { c \in PoolInfos : c.inShape = x.shape } :
       Call("maxPool", [x |-> x, convInfo |-> ci], maxPool(heap, x, ci))

CallMaxPoolBackprop ==
  /\ Room
  /\ \E x \in OfRank(4) : \E dy \in OfRank(4) :
       \E ci \in { c \in PoolInfos : c.inShape = x.shape /\ c.outShape = dy.shape } :
         Call("maxPoolBackprop", [dy |-> dy, x |-> x, convInfo |-> ci],
              maxPoolBackprop(heap, dy, x, ci))

CallTile ==
  /\ Room
  /\ \E x \in Operands : \E reps \in SeqsOf(1..2, Len(x.shape)) :
       /\ sizeFromShape([i \in 1..Len(x.shape) |-> x.shape[i] * reps[i]]) <= MaxSize
       /\ Call("tile", [x |-> x, reps |-> reps], tile(heap, x, reps))

CallTranspose ==
  /\ Room
  /\ \E x \in Operands : \E perm \in Perms(Len(x.shape)) :
       Call("transpose", [x |-> x, perm |-> perm], transpose(heap, x, perm))

CallOneHot ==
  /\ Room
  /\ \E indices \in OfRank(1) : \E depth \in 1..2 :
       Call("oneHot", [indices |-> indices, depth |-> depth,
                       onValue |-> 1, offValue |-> 0],
            oneHot(heap, indices, depth, 1, 0))

CallMultinomial ==
  /\ Room
  /\ \E probabilities \in OfRank(2) : \E numSamples \in 1..2 :
       \E seed \in 0..(ProbUnit - 1) :
         Call("multinomial",
              [probabilities |-> probabilities, numSamples |-> numSamples,
               seed |-> seed],
              multinomial(heap, probabilities, numSamples, seed))

KernelNames ==
  { "clone", "slice1D", "slice2D", "concat1D", "concat2D", "add", "subtract",
    "multiply", "neg", "square", "relu", "sum", "min", "max", "argMin",
    "argMax", "topKValues", "topKIndices", "conv2d", "maxPool",
    "maxPoolBackprop", "tile", "transpose", "oneHot", "multinomial" }

\* result.set(result.get(index) + 1, index): the caller writes to the tensor
\* the last call returned
Write ==
  /\ op \in KernelNames
  /\ ~ret.threw
  /\ \E index \in 1..sizeFromShape(ret.result.shape) :
       /\ heap' = [heap EXCEPT ![ret.result.buf][index] = @ + 1]
       /\ args' = [call |-> op, inputs |-> args, x |-> ret.result, index |-> index]
  /\ op' = "write"
  /\ UNCHANGED << tensors, ret >>

Next ==
  \/ Make \/ Write
  \/ CallClone \/ CallSlice1D \/ CallSlice2D \/ CallConcat1D \/ CallConcat2D
  \/ CallAdd \/ CallSubtract \/ CallMultiply \/ CallNeg \/ CallSquare
  \/ CallRelu \/ CallSum \/ CallMin \/ CallMax \/ CallArgMin \/ CallArgMax
  \/ CallTopKValues \/ CallTopKIndices \/ CallConv2d \/ CallMaxPool
  \/ CallMaxPoolBackprop \/ CallTile \/ CallTranspose \/ CallOneHot
  \/ CallMultinomial

Spec == Init /\ [][Next]_vars

\* the tensors among the arguments of a call
InputsOf(a) ==
  { a[f] : f \in DOMAIN a \cap { "x", "a", "b", "dy", "filter", "bias",
                                  "indices", "probabilities" } } \ { Null }

\* C8: no kernel changes a tensor it was given and every kernel returns a
\* tensor of its own: a kernel call leaves every typed array that existed
\* before it, and every tensor held, as it was; the typed array of the
\* tensor it returns did not exist before the call; and a write to the
\* returned tensor changes no input of the call.
C8_KernelsArePure ==
  [][ /\ (op' \in KernelNames) =>
           /\ \A b \in DOMAIN heap : b \in DOMAIN heap' /\ heap'[b] = heap[b]
           /\ tensors \subseteq tensors'
           /\ ~ret'.threw => /\ ret'.result.buf \notin DOMAIN heap
                             /\ ret'.result.buf \in DOMAIN heap'
      /\ (op' = "write") =>
           \A x \in InputsOf(args) : heap'[x.buf] = heap[x.buf] ]_vars

\* the caller has written to the clone of a tensor it made, and the two now
\* differ
C8_Witness ==
  /\ op = "write"
  /\ args.call = "clone"
  /\ args.inputs.x \in tensors
  /\ heap[args.x.buf] # heap[args.inputs.x.buf]

\* C9: a kernel call that fails has allocated nothing: the heap after a
\* call that threw is the heap before it.
C9_FailsBeforeAlloc ==
  [][ (op' \in KernelNames /\ ret'.threw) => heap' = heap ]_vars

---------------------------------------------------------------------------
(* add, neg and subtract on one drawn pair of tensors.                     *)

\* Largest dimension, and largest number of elements, of an operand drawn
\* for a binary kernel.
MaxBin == 2

\* the shapes of rank 0, 1 and 2 of the operands
BinShapes ==
  { s \in { <<>> } \cup { <<n>> : n \in 1..MaxBin }
            \cup { <<m, n>> : m \in 1..MaxBin, n \in 1..MaxBin } :
      sizeFromShape(s) <= MaxBin }

InitAddSub ==
  /\ \E aShape \in BinShapes : \E bShape \in BinShapes :
       \E aVals \in SeqsOf(Floats, sizeFromShape(aShape)) :
         \E bVals \in SeqsOf(Floats, sizeFromShape(bShape)) :
           /\ heap = StaticHeap \o << aVals, bVals >>
           /\ tensors = { NDArray(In(1), aShape, "float32"),
                          NDArray(In(2), bShape, "float32") }
           /\ args = [ a |-> NDArray(In(1), aShape, "float32"),
                       b |-> NDArray(In(2), bShape, "float32") ]
  /\ op = "init"
  /\ ret = NoCall

\* add(a, b), then neg(b), then subtract(a, neg(b))
Add ==
  /\ op = "init"
  /\ Call("add", args, add(heap, args.a, args.b))

Neg ==
  /\ op = "add" /\ ~ret.threw
  /\ Call("neg", [a |-> args.a, x |-> args.b, sum |-> ret.result],
          neg(heap, args.b))

Subtract ==
  /\ op = "neg" /\ ~ret.threw
  /\ Call("subtract", [a |-> args.a, b |-> ret.result, sum |-> args.sum],
          subtract(heap, args.a, ret.result))

NextAddSub == Add \/ Neg \/ Subtract

SpecAddSub == InitAddSub /\ [][NextAddSub]_vars

\* C11: add(a, b) and subtract(a, neg(b)) have the same shape and the same
\* element at every place, for broadcast-compatible a and b.
C11_AddIsSubtractOfNeg ==
  Returned("subtract") =>
    /\ ret.result.shape = args.sum.shape
    /\ getValues(heap, ret.result) = getValues(heap, args.sum)

\* subtract(a, neg(b)) has returned for an a of two elements, one of them
\* NaN, and a b that is broadcast over it
C11_Witness ==
  /\ Returned("subtract")
  /\ sizeFromShape(args.a.shape) = 2
  /\ sizeFromShape(args.b.shape) = 1
  /\ HasNaN(getValues(heap, args.a), {1})
  /\ getValues(heap, args.sum)[2] = 2 * MaxVal

---------------------------------------------------------------------------
(* transpose, there and back, on one drawn tensor.                         *)

\* Largest dimension of a tensor drawn for transpose.
MaxTDim == 2

\* the shapes of rank 1 to 4
TransposeShapes == UNION { SeqsOf(1..MaxTDim, rank) : rank \in 1..4 }

\* the tensor that holds 1, 2, ... in row-major order, with a NaN at
\* position nanAt if that is a position
Iota(n, nanAt) == [p \in 1..n |-> IF p = nanAt THEN NaN ELSE p]

\* the permutation that undoes perm
inversePerm(perm) ==
  [i \in 1..Len(perm) |-> (CHOOSE j \in 1..Len(perm) : perm[j] = i - 1) - 1]

InitTranspose ==
  /\ \E shape \in TransposeShapes : \E perm \in Perms(Len(shape)) :
       \E nanAt \in 0..1 :
         /\ heap = StaticHeap \o << Iota(sizeFromShape(shape), nanAt) >>
         /\ tensors = { NDArray(In(1), shape, "float32") }
         /\ args = [ x |-> NDArray(In(1), shape, "float32"), perm |-> perm ]
  /\ op = "init"
  /\ ret = NoCall

Transpose ==
  /\ op = "init"
  /\ Call("transpose", args, transpose(heap, args.x, args.perm))

\* transpose(transpose(x, perm), inversePerm(perm))
TransposeBack ==
  /\ op = "transpose" /\ ~ret.threw
  /\ Call("transposeBack",
          [ x |-> ret.result, perm |-> inversePerm(args.perm), of |-> args.x ],
          transpose(heap, ret.result, inversePerm(args.perm)))

NextTranspose == Transpose \/ TransposeBack

SpecTranspose == InitTranspose /\ [][NextTranspose]_vars

\* C12: transpose(transpose(x, perm), inversePerm(perm)) has the shape of x
\* and the element of x at every multi-index.
C12_TransposeRoundTrip ==
  Returned("transposeBack") =>
    /\ ret.result.shape = args.of.shape
    /\ \A i \in 0..(sizeFromShape(args.of.shape) - 1) :
         get(heap, ret.result, indexToLoc(args.of.shape, i))
           = get(heap, args.of, indexToLoc(args.of.shape, i))

\* a tensor of rank 3 with no axis of size 1 went through a permutation
\* that is not its own inverse, moved its elements, and came back
C12_Witness ==
  /\ Returned("transposeBack")
  /\ Len(args.of.shape) = 3
  /\ \A d \in 1..3 : args.of.shape[d] > 1
  /\ args.perm # inversePerm(args.perm)
  /\ getValues(heap, args.x) # getValues(heap, args.of)

---------------------------------------------------------------------------
(* multinomial on one drawn tensor of probabilities.                       *)

\* Largest number of events, of batch rows and of samples drawn.
MaxEvents == 3
MaxBatch == 2
MaxSamples == 2

\* the rows of numEvents probabilities, each a number of units, that sum to
\* one or less
ProbRows(numEvents) ==
  { row \in SeqsOf(0..ProbUnit, numEvents) :
      SumFn([e \in 1..numEvents |-> row[e]]) <= ProbUnit }

\* the rows of a tensor, one after the other
RECURSIVE Flatten(_)
Flatten(rows) == IF rows = <<>> THEN <<>> ELSE Head(rows) \o Flatten(Tail(rows))

InitMultinomial ==
  /\ \E numEvents \in 1..MaxEvents : \E batchSize \in 1..MaxBatch :
       \E rows \in SeqsOf(ProbRows(numEvents), batchSize) :
         \E numSamples \in 1..MaxSamples : \E seed \in 0..(ProbUnit - 1) :
           /\ heap = StaticHeap \o << Flatten(rows) >>
           /\ tensors = { NDArray(In(1), <<batchSize, numEvents>>, "float32") }
           /\ args = [ probabilities |->
                         NDArray(In(1), <<batchSize, numEvents>>, "float32"),
                       numSamples |-> numSamples, seed |-> seed ]
  /\ op = "init"
  /\ ret = NoCall

Multinomial ==
  /\ op = "init"
  /\ Call("multinomial", args,
          multinomial(heap, args.probabilities, args.numSamples, args.seed))

NextMultinomial == Multinomial

SpecMultinomial == InitMultinomial /\ [][NextMultinomial]_vars

\* p[0] + ... + p[e] of batch row b (b and e 0-based)
CumProb(b, e) ==
  SumFn([ev \in 0..e |->
           heap[args.probabilities.buf][b * args.probabilities.shape[2] + ev + 1]])

\* the events of batch row b whose cumulative probability exceeds the draw
\* of sample s
Exceeding(b, s) ==
  { e \in 0..(args.probabilities.shape[2] - 1) :
      CumProb(b, e) > alea(args.seed, s) }

\* C13: multinomial: the event of sample s of batch row b is the smallest
\* event whose cumulative probability exceeds the draw of the sample, the
\* last event when none does; it is an event of [0, numEvents); and the
\* row [1, 0, 0] yields event 0 at every sample.
C13_MultinomialFirstExceeding ==
  Returned("multinomial") =>
    \A b \in 0..(args.probabilities.shape[1] - 1) :
      \A s \in 0..(args.numSamples - 1) :
        LET numEvents == args.probabilities.shape[2]
            event == OutVals[b * args.numSamples + s + 1]
        IN  /\ event \in 0..(numEvents - 1)
            /\ IF Exceeding(b, s) = {} THEN event = numEvents - 1
               ELSE /\ event \in Exceeding(b, s)
                    /\ \A e \in Exceeding(b, s) : event <= e
            /\ (numEvents = 3 /\ CumProb(b, 0) = ProbUnit /\ CumProb(b, 2) = ProbUnit)
                 => event = 0

\* two samples of a row of three events, half and half on the first two:
\* the draws select different events, neither of them the last
C13_Witness ==
  /\ Returned("multinomial")
  /\ args.probabilities.shape[2] = 3
  /\ args.numSamples = 2
  /\ 0 < CumProb(0, 0) /\ CumProb(0, 0) < CumProb(0, 1)
  /\ OutVals[1] # OutVals[2]
  /\ OutVals[1] < 2 /\ OutVals[2] < 2

---------------------------------------------------------------------------
(* multinomial called again, after other calls of the backend.             *)

\* Largest number of calls followed.
MaxCalls == 3

\* the rows of numEvents probabilities that sum to one
NormalRows(numEvents) ==
  { row \in ProbRows(numEvents) :
      SumFn([e \in 1..numEvents |-> row[e]]) = ProbUnit }

InitAgain ==
  /\ \E numEvents \in 1..MaxEvents : \E row \in NormalRows(numEvents) :
       \E numSamples \in 1..MaxSamples : \E seed \in 0..(ProbUnit - 1) :
         /\ heap = StaticHeap \o << row >>
         /\ tensors = { NDArray(In(1), <<1, numEvents>>, "float32") }
         /\ args = [ probabilities |-> NDArray(In(1), <<1, numEvents>>, "float32"),
                     numSamples |-> numSamples, seed |-> seed,
                     theSeed |-> seed, first |-> <<>>, calls |-> 0,
                     others |-> 0 ]
  /\ op = "init"
  /\ ret = NoCall

MoreCalls == args.calls < MaxCalls

\* the call with the probabilities, numSamples and seed drawn; its first
\* result is remembered
MultinomialSame ==
  /\ MoreCalls
  /\ LET out == multinomial(heap, args.probabilities, args.numSamples, args.theSeed)
     IN  Call("multinomial",
              [args EXCEPT !.seed = args.theSeed, !.calls = @ + 1,
                           !.first = IF @ = <<>> THEN out.heap[out.result.buf]
                                     ELSE @],
              out)

\* a call with another seed
MultinomialOther ==
  /\ MoreCalls
  /\ \E seed \in (0..(ProbUnit - 1)) \ { args.theSeed } :
       Call("multinomialOther",
            [args EXCEPT !.seed = seed, !.calls = @ + 1, !.others = @ + 1],
            multinomial(heap, args.probabilities, args.numSamples, seed))

\* calls of other kernels
CloneBetween ==
  /\ MoreCalls
  /\ Call("clone", [args EXCEPT !.calls = @ + 1], clone(heap, args.probabilities))

SumBetween ==
  /\ MoreCalls
  /\ Call("sum", [args EXCEPT !.calls = @ + 1], sum(heap, args.probabilities, <<1>>))

NextAgain == MultinomialSame \/ MultinomialOther \/ CloneBetween \/ SumBetween

SpecAgain == InitAgain /\ [][NextAgain]_vars

---------------------------------------------------------------------------
(* oneHot on one drawn tensor of indices.                                  *)

\* Largest depth drawn for oneHot.
MaxDepth == 3

InitOneHot ==
  /\ \E n \in 1..MaxLen : \E depth \in 1..MaxDepth :
       \E idx \in SeqsOf(-1..depth, n) :
         \E onValue \in Finite : \E offValue \in { 0 } \cup Finite :
           /\ heap = StaticHeap \o << idx >>
           /\ tensors = { NDArray(In(1), <<n>>, "int32") }
           /\ args = [ indices |-> NDArray(In(1), <<n>>, "int32"), depth |-> depth,
                       onValue |-> onValue, offValue |-> offValue ]
  /\ op = "init"
  /\ ret = NoCall

OneHot ==
  /\ op = "init"
  /\ Call("oneHot", args,
          oneHot(heap, args.indices, args.depth, args.onValue, args.offValue))

NextOneHot == OneHot

SpecOneHot == InitOneHot /\ [][NextOneHot]_vars

\* the indices given to oneHot
Indices == heap[args.indices.buf]

\* C15: oneHot of n indices of [0, depth): the result has shape
\* [n, depth], element (i, indices[i]) is onValue and every other element
\* is offValue; oneHot([1,0], 3, 1, 0) is [[0,1,0],[1,0,0]].
C15_OneHotRows ==
  (Returned("oneHot") /\ \A i \in DOMAIN Indices : Indices[i] \in 0..(args.depth - 1)) =>
    /\ ret.result.shape = << Len(Indices), args.depth >>
    /\ Len(OutVals) = Len(Indices) * args.depth
    /\ \A i \in 0..(Len(Indices) - 1) : \A j \in 0..(args.depth - 1) :
         get(heap, ret.result, <<i, j>>)
           = IF j = Indices[i + 1] THEN args.onValue ELSE args.offValue
    /\ (Indices = <<1, 0>> /\ args.depth = 3 /\ args.onValue = 1 /\ args.offValue = 0)
         => OutVals = <<0, 1, 0, 1, 0, 0>>

\* oneHot([1,0], 3, 1, 0) has returned
C15_Witness ==
  /\ Returned("oneHot")
  /\ Indices = <<1, 0>>
  /\ args.depth = 3 /\ args.onValue = 1 /\ args.offValue = 0
  /\ get(heap, ret.result, <<0, 1>>) = 1
  /\ get(heap, ret.result, <<1, 0>>) = 1

---------------------------------------------------------------------------
(* conv2d with a 1x1 filter that selects channels.                         *)

\* the geometry of an axis of n under a filter of 1, stride 1, no padding
UnitGeom(n) == [in |-> n, filter |-> 1, stride |-> 1, pad |-> 0, out |-> n]

\* the 1x1 filters of zeros and ones that select, for each output channel,
\* one input channel: as [1, 1, d1, d2] in row-major order
SelectionFilter(inChannels, outChannels, sel) ==
  [p \in 1..(inChannels * outChannels) |->
     IF sel[((p - 1) % outChannels) + 1] = (p - 1) \div outChannels THEN 1 ELSE 0]

InitConvOne ==
  /\ \E ci \in { Conv2DInfo(UnitGeom(r), UnitGeom(c), b, d1, d2) :
                   r \in 1..MaxIn, c \in 1..MaxIn, b \in 1..MaxChan,
                   d1 \in 1..MaxChan, d2 \in 1..MaxChan } :
       /\ sizeFromShape(ci.inShape) <= MaxElems
       /\ sizeFromShape(ci.outShape) <= MaxElems
       /\ \E xv \in SeqsOf(Floats, sizeFromShape(ci.inShape)) :
            \E sel \in SeqsOf(0..(ci.inChannels - 1), ci.outChannels) :
              /\ heap = StaticHeap
                          \o << xv, SelectionFilter(ci.inChannels, ci.outChannels, sel) >>
              /\ tensors = { NDArray(In(1), ci.inShape, "float32"),
                             NDArray(In(2), ci.filterShape, "float32") }
              /\ args = [ x |-> NDArray(In(1), ci.inShape, "float32"),
                          filter |-> NDArray(In(2), ci.filterShape, "float32"),
                          bias |-> Null, convInfo |-> ci, sel |-> sel ]
  /\ op = "init"
  /\ ret = NoCall

Conv2dOne ==
  /\ op = "init"
  /\ Call("conv2d", args,
          conv2d(heap, args.x, args.filter, args.bias, args.convInfo))

NextConvOne == Conv2dOne

SpecConvOne == InitConvOne /\ [][NextConvOne]_vars

\* every output channel d2 is the input channel the filter selects for it;
\* with the identity filter the output is the input
OutputIsSelection ==
  /\ ret.result.shape = args.convInfo.outShape
  /\ \A p \in 1..sizeFromShape(args.convInfo.outShape) :
       LET loc == indexToLoc4(args.convInfo.outShape, p - 1)
       IN  OutVals[p] = get4(heap, args.x, loc[1], loc[2], loc[3], args.sel[loc[4] + 1])

\* C16 as stated: conv2d with a 1x1 channel-selection filter, no padding,
\* stride 1 and no bias gives, for every input, the selected input channel
\* at every output channel (the input itself under the identity filter).
C16_OneByOneAsClaimed == Returned("conv2d") => OutputIsSelection

\* C16, amended: the same, for an input that holds no NaN.
C16_OneByOne ==
  (Returned("conv2d") /\ ~HasNaN(InVals, DOMAIN InVals)) => OutputIsSelection

\* the identity filter over two channels has reproduced an input whose two
\* channels differ
C16_Witness ==
  /\ Returned("conv2d")
  /\ ~HasNaN(InVals, DOMAIN InVals)
  /\ args.sel = <<0, 1>>
  /\ args.convInfo.inChannels = 2
  /\ InVals[1] # InVals[2]
  /\ OutVals = InVals

---------------------------------------------------------------------------
(* equal on one drawn pair of tensors.                                     *)

\* the dtypes, and the elements a tensor of each may hold
Dtypes == { "float32", "int32", "bool" }
ElementsOf(dtype) ==
  IF dtype = "float32" THEN Floats
  ELSE IF dtype = "int32" THEN Finite \cup { NAN_INT32 }
  ELSE { 0, 1, NAN_BOOL }

InitEqual ==
  /\ \E aShape \in BinShapes : \E bShape \in BinShapes :
       \E aDtype \in Dtypes : \E bDtype \in Dtypes :
         \E aVals \in SeqsOf(ElementsOf(aDtype), sizeFromShape(aShape)) :
           \E bVals \in SeqsOf(ElementsOf(bDtype), sizeFromShape(bShape)) :
             /\ heap = StaticHeap \o << aVals, bVals >>
             /\ tensors = { NDArray(In(1), aShape, aDtype),
                            NDArray(In(2), bShape, bDtype) }
             /\ args = [ a |-> NDArray(In(1), aShape, aDtype),
                         b |-> NDArray(In(2), bShape, bDtype) ]
  /\ op = "init"
  /\ ret = NoCall

Equal ==
  /\ op = "init"
  /\ Call("equal", args, equal(heap, args.a, args.b))

NextEqual == Equal

SpecEqual == InitEqual /\ [][NextEqual]_vars

\* the element of the operand t that corresponds to the place loc of the
\* output: the last coordinates of loc, 0 along the axes of size 1
Corresponding(t, loc) ==
  get(heap, t, [d \in 1..Len(t.shape) |->
                  IF t.shape[d] = 1 THEN 0
                  ELSE loc[Len(loc) - Len(t.shape) + d]])

\* v is the NaN of the dtype
IsNaNOf(v, dtype) ==
  \/ dtype = "float32" /\ v = NaN
  \/ dtype = "int32" /\ v = NAN_INT32
  \/ dtype = "bool" /\ v = NAN_BOOL

\* C17: equal: an output element is the NaN of bool when the corresponding
\* element of either operand is the NaN of the operand's dtype, and
\* otherwise 1 when the two elements are equal, 0 when they differ.
C17_EqualPropagatesNaN ==
  Returned("equal") =>
    /\ ret.result.dtype = "bool"
    /\ \A p \in 1..sizeFromShape(ret.result.shape) :
         LET loc == indexToLoc(ret.result.shape, p - 1)
             aVal == Corresponding(args.a, loc)
             bVal == Corresponding(args.b, loc)
         IN  OutVals[p] =
               IF IsNaNOf(aVal, args.a.dtype) \/ IsNaNOf(bVal, args.b.dtype)
               THEN NAN_BOOL
               ELSE IF aVal = bVal THEN 1 ELSE 0

\* equal of a float32 tensor [NaN, v] with an int32 scalar v broadcast over
\* it: the NaN of bool, then 1
C17_Witness ==
  /\ Returned("equal")
  /\ args.a.dtype = "float32" /\ args.b.dtype = "int32"
  /\ args.a.shape = <<2>> /\ args.b.shape = <<>>
  /\ OutVals = << NAN_BOOL, 1 >>

---------------------------------------------------------------------------
(* pool with each of the three pool types on one drawn input.              *)

PoolTypes == { "max", "min", "avg" }

RECURSIVE Factorial(_)
Factorial(n) == IF n <= 1 THEN 1 ELSE n * Factorial(n - 1)

\* a finite pixel that every filterHeight * filterWidth divides
PoolUnit == Factorial(MaxFilter) * Factorial(MaxFilter)

\* the pixels drawn: a finite value, NaN and the two infinities
Pixels == { PoolUnit, NaN, NEGATIVE_INFINITY, POSITIVE_INFINITY }

InitPoolTypes ==
  /\ \E ci \in PoolInfos :
       \E xv \in SeqsOf(Pixels, sizeFromShape(ci.inShape)) :
         \E poolType \in PoolTypes :
           /\ heap = StaticHeap \o << xv >>
           /\ tensors = { NDArray(In(1), ci.inShape, "float32") }
           /\ args = [ x |-> NDArray(In(1), ci.inShape, "float32"),
                       convInfo |-> ci, poolType |-> poolType ]
  /\ op = "init"
  /\ ret = NoCall

MaxPoolOf ==
  /\ op = "init" /\ args.poolType = "max"
  /\ Call("pool", args, maxPool(heap, args.x, args.convInfo))

MinPool ==
  /\ op = "init" /\ args.poolType = "min"
  /\ Call("pool", args, minPool(heap, args.x, args.convInfo))

AvgPool ==
  /\ op = "init" /\ args.poolType = "avg"
  /\ Call("pool", args, avgPool(heap, args.x, args.convInfo))

NextPoolTypes == MaxPoolOf \/ MinPool \/ AvgPool

SpecPoolTypes == InitPoolTypes /\ [][NextPoolTypes]_vars

\* the input elements inside the clipped window of the output location
\* (b, yR, yC, d): those the filter placed at the output location covers
ClippedWindow(b, yR, yC, d) ==
  LET ci == args.convInfo
  IN  { get4(heap, args.x, b, xR, xC, d) :
          xR \in { r \in 0..(ci.inHeight - 1) :
                     r - (yR * ci.strideHeight - ci.padInfo.top)
                       \in 0..(ci.filterHeight - 1) },
          xC \in { c \in 0..(ci.inWidth - 1) :
                     c - (yC * ci.strideWidth - ci.padInfo.left)
                       \in 0..(ci.filterWidth - 1) } }

\* the output locations
PoolLocs == { indexToLoc4(args.convInfo.outShape, p - 1) :
               p \in 1..sizeFromShape(args.convInfo.outShape) }

PoolAt(loc) == get4(heap, ret.result, loc[1], loc[2], loc[3], loc[4])

\* the statement of C18 as it is worded: with each pool type the output at
\* a location is NaN exactly when its clipped window holds a NaN.
C18_PoolNaNAsClaimed ==
  Returned("pool") =>
    \A loc \in PoolLocs :
      isNaN(PoolAt(loc)) <=> NaN \in ClippedWindow(loc[1], loc[2], loc[3], loc[4])

\* C18: pool (max, min and avg): the output at a location is NaN when its
\* clipped window holds a NaN, wherever in the window it sits; when the
\* window holds no NaN the output is not NaN, unless the pool type is avg
\* and the window holds the two infinities, whose sum is NaN.
C18_PoolNaN ==
  Returned("pool") =>
    \A loc \in PoolLocs :
      LET window == ClippedWindow(loc[1], loc[2], loc[3], loc[4])
      IN  isNaN(PoolAt(loc)) <=>
            \/ NaN \in window
            \/ /\ args.poolType = "avg"
               /\ NEGATIVE_INFINITY \in window
               /\ POSITIVE_INFINITY \in window

\* an avg pooling over a window of two pixels or more whose last pixel is
\* the only NaN of the input: the output is NaN
C18_Witness ==
  /\ Returned("pool") /\ args.poolType = "avg"
  /\ args.convInfo.filterHeight * args.convInfo.filterWidth >= 2
  /\ args.convInfo.inShape = << 1, args.convInfo.filterHeight,
                                args.convInfo.filterWidth, 1 >>
  /\ args.convInfo.padInfo = [top |-> 0, left |-> 0]
  /\ \A p \in DOMAIN InVals : isNaN(InVals[p]) <=> p = Len(InVals)
  /\ OutVals = << NaN >>

---------------------------------------------------------------------------
(* sum on one drawn input.                                                 *)

MaxInt32 == 2147483647

\* the elements drawn for a tensor of the dtype summed
SumElements(dtype) ==
  IF dtype = "float32" THEN Floats
  ELSE IF dtype = "int32" THEN { 1, MaxInt32, NAN_INT32 }
  ELSE { 0, 1 }

\* the tensor of shape [2, 3] holding 1..6
SixShape == << 2, 3 >>
SixVals == << 1, 2, 3, 4, 5, 6 >>

InitSum ==
  /\ \E shape \in ReduceShapes \cup { <<>>, SixShape } :
       \E dtype \in Dtypes :
         \E vals \in IF shape = SixShape THEN { SixVals }
                     ELSE SeqsOf(SumElements(dtype), sizeFromShape(shape)) :
           \E axes \in IF shape = <<>> THEN { <<>> }
                       ELSE AxesOf(Len(shape)) \cup { <<>> } :
             /\ heap = StaticHeap \o << vals >>
             /\ tensors = { NDArray(In(1), shape, dtype) }
             /\ args = [x |-> NDArray(In(1), shape, dtype), axes |-> axes]
  /\ op = "init"
  /\ ret = NoCall

Sum == op = "init" /\ Call("sum", args, sum(heap, args.x, args.axes))

NextSum == Sum

SpecSum == InitSum /\ [][NextSum]_vars

\* the exact sum of the integers of the window of output element i
\* (0-based), as << hi, lo >> with 0 <= lo < Half
WindowSum(i) ==
  LET hi == SumFn([p \in WindowOf(args, i) |-> InVals[p] \div Half])
      lo == SumFn([p \in WindowOf(args, i) |-> InVals[p] % Half])
  IN  << hi + (lo \div Half), lo % Half >>

\* output element i (0-based) is the sum of its window: NaN over a float
\* window that holds a NaN
IsWindowSum(i) ==
  IF args.x.dtype = "float32"
  THEN OutVals[i + 1] =
         IF HasNaN(InVals, WindowOf(args, i)) THEN NaN
         ELSE SumFn([p \in WindowOf(args, i) |-> InVals[p]])
  ELSE << OutVals[i + 1] \div Half, OutVals[i + 1] % Half >> = WindowSum(i)

\* output element i (0-based) is the sum of its window modulo 2^32
IsWindowSumInt32(i) ==
  IF args.x.dtype = "float32" THEN IsWindowSum(i)
  ELSE /\ OutVals[i + 1] % Half = WindowSum(i)[2]
       /\ ((OutVals[i + 1] \div Half) - WindowSum(i)[1]) % Half = 0

\* the number of output elements times reduceSize is the input size, and
\* the sum of the [2,3] tensor holding 1..6 over all axes is 21
SizesAndExample ==
  /\ Len(OutVals) * ReduceSizeOf(args) = Len(InVals)
  /\ (args.x.shape = SixShape /\ args.axes = << 0, 1 >>) => OutVals = << 21 >>

\* the statement of C19 as it is worded: every output element is the sum
\* of its window, whatever the dtype.
C19_SumAsClaimed ==
  Returned("sum") =>
    /\ \A i \in 0..(Len(OutVals) - 1) : IsWindowSum(i)
    /\ SizesAndExample

\* C19: sum over valid trailing axes: output element i is the sum of the
\* reduceSize input elements at offsets [i*reduceSize, (i+1)*reduceSize),
\* modulo 2^32 into -2^31 .. 2^31 - 1 when the result is int32; the number
\* of output elements times reduceSize is the input size; the [2,3] tensor
\* holding 1..6 summed over all axes gives 21.
C19_SumIsWindowSum ==
  Returned("sum") =>
    /\ \A i \in 0..(Len(OutVals) - 1) : IsWindowSumInt32(i)
    /\ ret.result.dtype = "int32" =>
         \A i \in 1..Len(OutVals) : OutVals[i] \in NAN_INT32..MaxInt32
    /\ SizesAndExample

\* the [2,3] tensor holding 1..6 summed over all axes: 21
C19_Witness ==
  /\ Returned("sum")
  /\ args.x.shape = SixShape /\ InVals = SixVals /\ args.axes = << 0, 1 >>
  /\ OutVals = << 21 >>

---------------------------------------------------------------------------
(* conv2dDerInput on one drawn input.                                      *)

InitDerInput ==
  /\ \E ci \in ConvInfos :
       \E dyv \in SeqsOf(Finite, sizeFromShape(ci.outShape)) :
         \E fv \in SeqsOf(Finite, sizeFromShape(ci.filterShape)) :
           /\ heap = StaticHeap \o << dyv, fv >>
           /\ tensors = { NDArray(In(1), ci.outShape, "float32"),
                          NDArray(In(2), ci.filterShape, "float32") }
           /\ args = [ dy |-> NDArray(In(1), ci.outShape, "float32"),
                       filter |-> NDArray(In(2), ci.filterShape, "float32"),
                       convInfo |-> ci ]
  /\ op = "init"
  /\ ret = NoCall

Conv2dDerInput ==
  /\ op = "init"
  /\ Call("conv2dDerInput", args,
          conv2dDerInput(heap, args.dy, args.filter, args.convInfo))

NextDerInput == Conv2dDerInput

SpecDerInput == InitDerInput /\ [][NextDerInput]_vars

\* the adjoint of conv2d at the input location (b, xR, xC, d1): the sum of
\* dy[b,yR,yC,d2] * filter[wR,wC,d1,d2] over the output locations and the
\* filter offsets with xR = strideHeight*yR - padTop + wR and
\* xC = strideWidth*yC - padLeft + wC
AdjointAt(b, xR, xC, d1) ==
  LET ci == args.convInfo
      terms == { e \in (0..(ci.outHeight - 1)) \X (0..(ci.outWidth - 1))
                        \X (0..(ci.outChannels - 1))
                        \X (0..(ci.filterHeight - 1)) \X (0..(ci.filterWidth - 1)) :
                   /\ xR = ci.strideHeight * e[1] - ci.padInfo.top + e[4]
                   /\ xC = ci.strideWidth * e[2] - ci.padInfo.left + e[5] }
  IN  SumFn([e \in terms |->
               get4(heap, args.dy, b, e[1], e[2], e[3])
                 * get4(heap, args.filter, e[4], e[5], d1, e[3])])

\* dx is the adjoint at every input location
DxIsAdjoint ==
  \A p \in 1..sizeFromShape(args.convInfo.inShape) :
    LET loc == indexToLoc4(args.convInfo.inShape, p - 1)
    IN  OutVals[p] = AdjointAt(loc[1], loc[2], loc[3], loc[4])

\* C20: conv2dDerInput is the adjoint of conv2d for every geometry,
\* non-square filters and padTop different from padLeft included: dx at
\* (b, xR, xC, d1) is the sum of dy[b,yR,yC,d2] * filter[wR,wC,d1,d2] over
\* the (yR, yC, d2, wR, wC) with xR = strideHeight*yR - padTop + wR and
\* xC = strideWidth*yC - padLeft + wC.
C20_DerInputIsAdjoint ==
  Returned("conv2dDerInput") => DxIsAdjoint

\* the same on the geometries where the row offset filterHeight - 1 -
\* padTop and the column offset filterWidth - 1 - padLeft are equal
C20_DerInputIsAdjointEqualOffsets ==
  (/\ Returned("conv2dDerInput")
   /\ args.convInfo.filterHeight - 1 - args.convInfo.padInfo.top
        = args.convInfo.filterWidth - 1 - args.convInfo.padInfo.left) =>
    DxIsAdjoint

---------------------------------------------------------------------------
(* conv2dDerFilter on one drawn input.                                     *)

InitDerFilter ==
  /\ \E ci \in ConvInfos :
       \E xv \in SeqsOf(Finite, sizeFromShape(ci.inShape)) :
         \E dyv \in SeqsOf(Finite, sizeFromShape(ci.outShape)) :
           /\ heap = StaticHeap \o << xv, dyv >>
           /\ tensors = { NDArray(In(1), ci.inShape, "float32"),
                          NDArray(In(2), ci.outShape, "float32") }
           /\ args = [ x |-> NDArray(In(1), ci.inShape, "float32"),
                       dy |-> NDArray(In(2), ci.outShape, "float32"),
                       convInfo |-> ci ]
  /\ op = "init"
  /\ ret = NoCall

Conv2dDerFilter ==
  /\ op = "init"
  /\ Call("conv2dDerFilter", args,
          conv2dDerFilter(heap, args.x, args.dy, args.convInfo))

NextDerFilter == Conv2dDerFilter

SpecDerFilter == InitDerFilter /\ [][NextDerFilter]_vars

\* the << xR, xC, wR, wC, yR, yC >> of conv2d: the input positions it reads
\* with a filter offset to produce an output position
Conv2dTriples ==
  LET ci == args.convInfo
  IN  UNION { { << xR, xC, xR - conv2dRowCorner(ci, yR),
                   xC - conv2dColCorner(ci, yC), yR, yC >> :
                  xR \in Max2(0, conv2dRowCorner(ci, yR))
                           ..(Min2(ci.inHeight, ci.filterHeight
                                                  + conv2dRowCorner(ci, yR)) - 1),
                  xC \in Max2(0, conv2dColCorner(ci, yC))
                           ..(Min2(ci.inWidth, ci.filterWidth
                                                 + conv2dColCorner(ci, yC)) - 1) } :
              yR \in 0..(ci.outHeight - 1), yC \in 0..(ci.outWidth - 1) }

\* the << xR, xC, wR, wC, yR, yC >> of conv2dDerFilter
DerFilterTriples ==
  LET ci == args.convInfo
  IN  UNION { { << wR + yR * ci.strideHeight - ci.padInfo.top,
                   wC + yC * ci.strideWidth - ci.padInfo.left, wR, wC, yR, yC >> :
                  yR \in derFilterRows(ci, wR), yC \in derFilterCols(ci, wC) } :
              wR \in 0..(ci.filterHeight - 1), wC \in 0..(ci.filterWidth - 1) }

\* dW at every filter location is the sum of x * dy over the batches and
\* the triples of conv2d with that filter offset
DwIsGradient ==
  \A p \in 1..sizeFromShape(args.convInfo.filterShape) :
    LET loc == indexToLoc4(args.convInfo.filterShape, p - 1)
        terms == { e \in (0..(args.convInfo.batchSize - 1)) \X Conv2dTriples :
                     e[2][3] = loc[1] /\ e[2][4] = loc[2] }
    IN  OutVals[p] =
          SumFn([e \in terms |->
                   get4(heap, args.x, e[1], e[2][1], e[2][2], loc[3])
                     * get4(heap, args.dy, e[1], e[2][5], e[2][6], loc[4])])

\* C21: conv2dDerFilter is the weight gradient paired with conv2d: for
\* every geometry dW[wR,wC,d1,d2] is the sum of x[b,xR,xC,d1] *
\* dy[b,yR,yC,d2] over the (b, yR, yC) for which conv2d reads (xR, xC)
\* with the filter offset (wR, wC) to produce (yR, yC), and the two kernels
\* use the same set of triples.
C21_DerFilterPairsWithConv ==
  Returned("conv2dDerFilter") =>
    /\ DerFilterTriples = Conv2dTriples
    /\ DwIsGradient

\* the same on the geometries whose padTop equals padLeft
C21_DerFilterPairsWithConvEqualPads ==
  (/\ Returned("conv2dDerFilter")
   /\ args.convInfo.padInfo.top = args.convInfo.padInfo.left) =>
    (DerFilterTriples = Conv2dTriples /\ DwIsGradient)

---------------------------------------------------------------------------
(* The reads of the convolution and pooling kernels: << tensor, location >>
   for every get the loops of a kernel perform.                            *)

\* the whole footprint of the filter at the corner, not clipped
clippedReadsWhole(convInfo, xRCorner, xCCorner) ==
  { << xR, xC, xR - xRCorner, xC - xCCorner >> :
      xR \in xRCorner..(convInfo.filterHeight + xRCorner - 1),
      xC \in xCCorner..(convInfo.filterWidth + xCCorner - 1) }

\* the clipped window with its corner: << xR, xC, wR, wC >> for xR in
\* [xRMin, xRMax) and xC in [xCMin, xCMax)
clippedReads(convInfo, xRCorner, xCCorner) ==
  { << xR, xC, xR - xRCorner, xC - xCCorner >> :
      xR \in Max2(0, xRCorner)
               ..(Min2(convInfo.inHeight, convInfo.filterHeight + xRCorner) - 1),
      xC \in Max2(0, xCCorner)
               ..(Min2(convInfo.inWidth, convInfo.filterWidth + xCCorner) - 1) }

\* x.get(b, xR, xC, d1) and filter.get(wR, wC, d1, d2) of conv2d
conv2dReads(convInfo) ==
  UNION { UNION { { << "x", << o[1], e[1], e[2], d1 >> >>,
                    << "filter", << e[3], e[4], d1, o[4] >> >> } :
                    e \in clippedReads(convInfo, conv2dRowCorner(convInfo, o[2]),
                                       conv2dColCorner(convInfo, o[3])),
                    d1 \in 0..(convInfo.inChannels - 1) } :
          o \in { indexToLoc4(convInfo.outShape, p - 1) :
                    p \in 1..sizeFromShape(convInfo.outShape) } }

\* dy.get(b, yR, yC, d2) and filter.get(filterHeight - 1 - wR,
\* filterWidth - 1 - wC, d1, d2) of conv2dDerInput
conv2dDerInputReads(convInfo) ==
  UNION { LET xRCorner == i[2] - (convInfo.filterWidth - 1 - convInfo.padInfo.left)
              xCCorner == i[3] - (convInfo.filterHeight - 1 - convInfo.padInfo.top)
              yRs == { yR \in Max2(0, ceilOf(xRCorner, convInfo.strideHeight))
                                ..(convInfo.outHeight - 1) :
                         yR * convInfo.strideHeight < convInfo.filterHeight + xRCorner }
              yCs == { yC \in Max2(0, ceilOf(xCCorner, convInfo.strideWidth))
                                ..(convInfo.outWidth - 1) :
                         yC * convInfo.strideWidth < convInfo.filterWidth + xCCorner }
          IN  UNION { { << "dy", << i[1], yR, yC, d2 >> >>,
                        << "filter",
                           << convInfo.filterHeight - 1
                                - (yR * convInfo.strideHeight - xRCorner),
                              convInfo.filterWidth - 1
                                - (yC * convInfo.strideWidth - xCCorner),
                              i[4], d2 >> >> } :
                        yR \in yRs, yC \in yCs,
                        d2 \in 0..(convInfo.outChannels - 1) } :
          i \in { indexToLoc4(convInfo.inShape, p - 1) :
                    p \in 1..sizeFromShape(convInfo.inShape) } }

\* x.get(b, xR, xC, d1) and dy.get(b, yR, yC, d2) of conv2dDerFilter
conv2dDerFilterReads(convInfo) ==
  UNION { UNION { { << "x", << b, w[1] + yR * convInfo.strideHeight
                                     - convInfo.padInfo.top,
                              w[2] + yC * convInfo.strideWidth
                                     - convInfo.padInfo.left, w[3] >> >>,
                    << "dy", << b, yR, yC, w[4] >> >> } :
                    b \in 0..(convInfo.batchSize - 1),
                    yR \in derFilterRows(convInfo, w[1]),
                    yC \in derFilterCols(convInfo, w[2]) } :
          w \in { indexToLoc4(convInfo.filterShape, p - 1) :
                    p \in 1..sizeFromShape(convInfo.filterShape) } }

\* x.get(b, xR, xC, d1) and filter.get(wR, wC, d1, q) of depthwiseConv2D
depthwiseConv2DReads(convInfo) ==
  LET chMul == convInfo.outChannels \div convInfo.inChannels
  IN  UNION { UNION { { << "x", << o[1], e[1], e[2], o[4] \div chMul >> >>,
                        << "filter", << e[3], e[4], o[4] \div chMul,
                                        o[4] % chMul >> >> } :
                        e \in clippedReads(convInfo,
                                 o[2] * convInfo.strideHeight - convInfo.padInfo.left,
                                 o[3] * convInfo.strideWidth - convInfo.padInfo.top) } :
              o \in { indexToLoc4(convInfo.outShape, p - 1) :
                        p \in 1..sizeFromShape(convInfo.outShape) } }

\* x.get(b, xR, xC, d) of pool and of maxPoolPositions, which scan the
\* same window; a NaN pixel ends the scan of pool after it is read
poolReads(convInfo) ==
  UNION { { << "x", << o[1], xR, xC, o[4] >> >> :
              xR \in poolRows(convInfo, o[2]), xC \in poolCols(convInfo, o[3]) } :
          o \in { indexToLoc4(convInfo.outShape, p - 1) :
                    p \in 1..sizeFromShape(convInfo.outShape) } }

\* maxPositions.get(b, dyR, dyC, d) of maxPoolBackprop, and dy.get(b, dyR,
\* dyC, d) where the mask is 1
maxPoolBackpropReads(h, x, convInfo) ==
  LET maxPositions == maxPoolPositions(h, x, convInfo)
  IN  UNION { LET dyRCorner == i[2] - (convInfo.filterHeight - 1 - convInfo.padInfo.top)
                  dyCCorner == i[3] - (convInfo.filterWidth - 1 - convInfo.padInfo.left)
                  dyRs == { w \in 0..(convInfo.filterHeight - 1) :
                              /\ dyRCorner + w >= 0
                              /\ (dyRCorner + w) % convInfo.strideHeight = 0
                              /\ (dyRCorner + w) \div convInfo.strideHeight
                                    < convInfo.outHeight }
                  dyCs == { w \in 0..(convInfo.filterWidth - 1) :
                              /\ dyCCorner + w >= 0
                              /\ (dyCCorner + w) % convInfo.strideWidth = 0
                              /\ (dyCCorner + w) \div convInfo.strideWidth
                                    < convInfo.outWidth }
              IN  UNION { LET dyR == (dyRCorner + wR) \div convInfo.strideHeight
                              dyC == (dyCCorner + wC) \div convInfo.strideWidth
                              maxPos == convInfo.filterHeight * convInfo.filterWidth - 1
                                          - maxPositions[locToIndex4(convInfo.outShape,
                                                           i[1], dyR, dyC, i[4]) + 1]
                          IN  { << "maxPositions", << i[1], dyR, dyC, i[4] >> >> }
                                \cup (IF maxPoolMask(maxPos, wR * convInfo.filterWidth + wC) = 1
                                      THEN { << "dy", << i[1], dyR, dyC, i[4] >> >> }
                                      ELSE {}) :
                            wR \in dyRs, wC \in dyCs } :
              i \in { indexToLoc4(convInfo.inShape, p - 1) :
                        p \in 1..sizeFromShape(convInfo.inShape) } }

---------------------------------------------------------------------------
(* Each convolution and pooling kernel on one drawn geometry, with the
   reads of the call recorded.                                             *)

\* the geometries of depthwiseConv2D: outChannels is inChannels times the
\* channel multiplier, and the filter has one slice per multiplier
DepthwiseInfos ==
  { [ci EXCEPT !.filterShape = << ci.filterHeight, ci.filterWidth, ci.inChannels,
                                  ci.outChannels \div ci.inChannels >>] :
      ci \in { c \in ConvInfos : c.outChannels % c.inChannels = 0 } }

ReadKernels == { "conv2d", "conv2dDerInput", "conv2dDerFilter",
                 "depthwiseConv2D", "maxPool", "maxPoolBackprop" }

InfosOf(kernel) ==
  IF kernel = "depthwiseConv2D" THEN DepthwiseInfos
  ELSE IF kernel \in { "maxPool", "maxPoolBackprop" } THEN PoolInfos
  ELSE ConvInfos

Ones(n) == [p \in 1..n |-> 1]

InitReads ==
  /\ \E kernel \in ReadKernels : \E ci \in InfosOf(kernel) :
       \E xv \in SeqsOf(Finite, sizeFromShape(ci.inShape)) :
         /\ heap = StaticHeap \o << xv, Ones(sizeFromShape(ci.outShape)),
                                    Ones(sizeFromShape(ci.filterShape)) >>
         /\ tensors = { NDArray(In(1), ci.inShape, "float32"),
                        NDArray(In(2), ci.outShape, "float32"),
                        NDArray(In(3), ci.filterShape, "float32") }
         /\ args = [ kernel |-> kernel, convInfo |-> ci,
                     x |-> NDArray(In(1), ci.inShape, "float32"),
                     dy |-> NDArray(In(2), ci.outShape, "float32"),
                     filter |-> NDArray(In(3), ci.filterShape, "float32"),
                     reads |-> {} ]
  /\ op = "init"
  /\ ret = NoCall

ReadConv2d ==
  /\ op = "init" /\ args.kernel = "conv2d"
  /\ Call("conv2d", [args EXCEPT !.reads = conv2dReads(args.convInfo)],
          conv2d(heap, args.x, args.filter, Null, args.convInfo))

ReadConv2dDerInput ==
  /\ op = "init" /\ args.kernel = "conv2dDerInput"
  /\ Call("conv2dDerInput",
          [args EXCEPT !.reads = conv2dDerInputReads(args.convInfo)],
          conv2dDerInput(heap, args.dy, args.filter, args.convInfo))

ReadConv2dDerFilter ==
  /\ op = "init" /\ args.kernel = "conv2dDerFilter"
  /\ Call("conv2dDerFilter",
          [args EXCEPT !.reads = conv2dDerFilterReads(args.convInfo)],
          conv2dDerFilter(heap, args.x, args.dy, args.convInfo))

ReadDepthwiseConv2D ==
  /\ op = "init" /\ args.kernel = "depthwiseConv2D"
  /\ Call("depthwiseConv2D",
          [args EXCEPT !.reads = depthwiseConv2DReads(args.convInfo)],
          depthwiseConv2D(heap, args.x, args.filter, args.convInfo))

ReadMaxPool ==
  /\ op = "init" /\ args.kernel = "maxPool"
  /\ Call("maxPool", [args EXCEPT !.reads = poolReads(args.convInfo)],
          maxPool(heap, args.x, args.convInfo))

\* maxPoolBackprop reads x in maxPoolPositions, then maxPositions and dy
ReadMaxPoolBackprop ==
  /\ op = "init" /\ args.kernel = "maxPoolBackprop"
  /\ Call("maxPoolBackprop",
          [args EXCEPT !.reads = poolReads(args.convInfo)
                          \cup maxPoolBackpropReads(heap, args.x, args.convInfo)],
          maxPoolBackprop(heap, args.dy, args.x, args.convInfo))

NextReads ==
  \/ ReadConv2d \/ ReadConv2dDerInput \/ ReadConv2dDerFilter
  \/ ReadDepthwiseConv2D \/ ReadMaxPool \/ ReadMaxPoolBackprop

SpecReads == InitReads /\ [][NextReads]_vars

\* the shape of the tensor a read is made of
ShapeRead(tensor) ==
  IF tensor = "x" THEN args.convInfo.inShape
  ELSE IF tensor = "filter" THEN args.convInfo.filterShape
  ELSE args.convInfo.outShape

\* C22: conv2d, conv2dDerInput, conv2dDerFilter, depthwiseConv2D, pool,
\* maxPoolPositions and maxPoolBackprop: for every geometry, non-square
\* filters and padTop different from padLeft included, every location read
\* of x, dy, filter or the map of max positions lies inside the shape of
\* that tensor.
C22_ReadsInsideShapes ==
  \A r \in args.reads :
    \A d \in 1..4 : r[2][d] \in 0..(ShapeRead(r[1])[d] - 1)

\* a conv2d of a geometry with a non-square filter and padTop different
\* from padLeft, whose window is clipped at a border, has read x and filter
C22_Witness ==
  /\ Returned("conv2d")
  /\ args.convInfo.filterHeight # args.convInfo.filterWidth
  /\ args.convInfo.padInfo.top # args.convInfo.padInfo.left
  /\ \E r \in args.reads : r[1] = "x"
  /\ \E r \in args.reads : r[1] = "filter" /\ r[2][2] > 0
  /\ Cardinality(args.reads)
       < 2 * sizeFromShape(args.convInfo.outShape) * args.convInfo.inChannels
           * args.convInfo.filterHeight * args.convInfo.filterWidth

---------------------------------------------------------------------------
(* multiply and divide on one drawn pair of tensors.                       *)

\* Largest dimension and largest number of elements of an operand drawn
\* for multiply and divide.
MaxMulDim == 3
MaxMulSize == 6

\* the shapes of rank 0, 1 and 2 of the operands
MulShapes ==
  { s \in { <<>> } \cup { <<n>> : n \in 1..MaxMulDim }
            \cup { <<m, n>> : m \in 1..MaxMulDim, n \in 1..MaxMulDim } :
      sizeFromShape(s) <= MaxMulSize }

\* the elements of a and of b: every element of a is a multiple of every
\* element of b
Dividends == { 2, 4 }
Divisors == { 1, 2 }

InitMulDiv ==
  /\ \E aShape \in MulShapes : \E bShape \in MulShapes :
       \E aVals \in SeqsOf(Dividends, sizeFromShape(aShape)) :
         \E bVals \in SeqsOf(Divisors, sizeFromShape(bShape)) :
           /\ heap = StaticHeap \o << aVals, bVals >>
           /\ tensors = { NDArray(In(1), aShape, "float32"),
                          NDArray(In(2), bShape, "float32") }
           /\ args = [ a |-> NDArray(In(1), aShape, "float32"),
                       b |-> NDArray(In(2), bShape, "float32") ]
  /\ op = "init"
  /\ ret = NoCall

Multiply ==
  /\ op = "init"
  /\ Call("multiply", args, multiply(heap, args.a, args.b))

Divide ==
  /\ op = "init"
  /\ Call("divide", args, divide(heap, args.a, args.b))

NextMulDiv == Multiply \/ Divide

SpecMulDiv == InitMulDiv /\ [][NextMulDiv]_vars

\* the values broadcastedBinaryOp gives for a and b with the product or
\* the quotient as the combinator
BroadcastValues ==
  LET opFn == [pair \in ValuePairs(heap, args.a, args.b) |->
                 IF op = "multiply" THEN Times(pair[1], pair[2])
                 ELSE Quotient(pair[1], pair[2])]
      outcome == broadcastedBinaryOp(heap, args.a, args.b, "float32", opFn)
  IN  outcome.heap[outcome.result.buf]

\* the output is the product (the quotient) of the elements of a and b that
\* correspond under broadcasting, which is what broadcastedBinaryOp gives
MulDivIsBroadcast ==
  /\ \A p \in 1..sizeFromShape(ret.result.shape) :
       LET loc == indexToLoc(ret.result.shape, p - 1)
           aVal == Corresponding(args.a, loc)
           bVal == Corresponding(args.b, loc)
       IN  OutVals[p] = IF op = "multiply" THEN Times(aVal, bVal)
                        ELSE Quotient(aVal, bVal)
  /\ OutVals = BroadcastValues

\* C23: multiply and divide agree with the generic broadcast primitive:
\* for every pair of broadcast-compatible shapes, [2,1] with [2,3] among
\* them, the output element at loc is a[loc with the broadcast axes of a
\* at 0] times (divided by) b[loc with the broadcast axes of b at 0], the
\* result of broadcastedBinaryOp with the product (quotient) combinator.
C23_MulDivAreBroadcast ==
  (Returned("multiply") \/ Returned("divide")) => MulDivIsBroadcast

\* the same on the pairs where each operand is a scalar or has the
\* broadcast shape
C23_MulDivAreBroadcastSimple ==
  (/\ Returned("multiply") \/ Returned("divide")
   /\ \A t \in { args.a, args.b } :
        sizeFromShape(t.shape) = 1 \/ t.shape = ret.result.shape) =>
    MulDivIsBroadcast

---------------------------------------------------------------------------
(* depthwiseConv2D on one drawn input.                                     *)

InitDepthwise ==
  /\ \E ci \in DepthwiseInfos :
       \E xv \in SeqsOf(Floats, sizeFromShape(ci.inShape)) :
         \E fv \in SeqsOf(Finite, sizeFromShape(ci.filterShape)) :
           /\ heap = StaticHeap \o << xv, fv >>
           /\ tensors = { NDArray(In(1), ci.inShape, "float32"),
                          NDArray(In(2), ci.filterShape, "float32") }
           /\ args = [ x |-> NDArray(In(1), ci.inShape, "float32"),
                       filter |-> NDArray(In(2), ci.filterShape, "float32"),
                       convInfo |-> ci ]
  /\ op = "init"
  /\ ret = NoCall

DepthwiseConv2D ==
  /\ op = "init"
  /\ Call("depthwiseConv2D", args,
          depthwiseConv2D(heap, args.x, args.filter, args.convInfo))

NextDepthwise == DepthwiseConv2D

SpecDepthwise == InitDepthwise /\ [][NextDepthwise]_vars

\* the geometry of args.convInfo for one input and one output channel
OneChannelInfo ==
  LET ci == args.convInfo
  IN  [ci EXCEPT !.inChannels = 1, !.outChannels = 1,
                 !.inShape = << ci.batchSize, ci.inHeight, ci.inWidth, 1 >>,
                 !.outShape = << ci.batchSize, ci.outHeight, ci.outWidth, 1 >>,
                 !.filterShape = << ci.filterHeight, ci.filterWidth, 1, 1 >>]

\* a heap that holds the input channel d1 alone and the filter
\* filter[:,:,d1,q] alone
OneChannelHeap(d1, q) ==
  << [p \in 1..sizeFromShape(OneChannelInfo.inShape) |->
        LET loc == indexToLoc4(OneChannelInfo.inShape, p - 1)
        IN  get4(heap, args.x, loc[1], loc[2], loc[3], d1)],
     [p \in 1..sizeFromShape(OneChannelInfo.filterShape) |->
        LET loc == indexToLoc4(OneChannelInfo.filterShape, p - 1)
        IN  get4(heap, args.filter, loc[1], loc[2], d1, q)] >>

\* conv2d without bias of the input channel d1 with filter[:,:,d1,q], at
\* the output location (b, yR, yC)
ConvOfChannel(d1, q, b, yR, yC) ==
  conv2dAt(OneChannelHeap(d1, q),
           NDArray(1, OneChannelInfo.inShape, "float32"),
           NDArray(2, OneChannelInfo.filterShape, "float32"),
           Null, OneChannelInfo, b, yR, yC, 0)

ChMul == args.convInfo.outChannels \div args.convInfo.inChannels

\* C24: depthwiseConv2D: the output has inChannels * channelMultiplier
\* channels, and output channel d1 * channelMultiplier + q is at every
\* location the conv2d, without bias and of the same geometry, of the
\* input channel d1 alone with the filter filter[:,:,d1,q] alone.
C24_DepthwiseIsConvPerChannel ==
  Returned("depthwiseConv2D") =>
    /\ ret.result.shape = << args.convInfo.batchSize, args.convInfo.outHeight,
                             args.convInfo.outWidth,
                             args.convInfo.inChannels * args.filter.shape[4] >>
    /\ Len(OutVals) = sizeFromShape(ret.result.shape)
    /\ \A d1 \in 0..(args.convInfo.inChannels - 1) : \A q \in 0..(ChMul - 1) :
         \A b \in 0..(args.convInfo.batchSize - 1) :
           \A yR \in 0..(args.convInfo.outHeight - 1) :
             \A yC \in 0..(args.convInfo.outWidth - 1) :
               get4(heap, ret.result, b, yR, yC, d1 * ChMul + q)
                 = ConvOfChannel(d1, q, b, yR, yC)

\* a depthwiseConv2D of two input channels, the first of them NaN at the
\* one pixel read: the first output channel is NaN, the second is not
C24_Witness ==
  /\ Returned("depthwiseConv2D")
  /\ args.convInfo.inChannels = 2
  /\ args.convInfo.inShape = << 1, 1, 1, 2 >>
  /\ InVals[1] = NaN /\ InVals[2] # NaN
  /\ OutVals[1] = NaN /\ OutVals[2] \in Finite

---------------------------------------------------------------------------
(* avgPool on one drawn input without NaN.                                 *)

\* the finite pixels drawn: multiples of every filterHeight * filterWidth
AvgPixels == { PoolUnit, 2 * PoolUnit }

InitAvgPool ==
  /\ \E ci \in PoolInfos :
       \E xv \in SeqsOf(AvgPixels, sizeFromShape(ci.inShape)) :
         /\ heap = StaticHeap \o << xv >>
         /\ tensors = { NDArray(In(1), ci.inShape, "float32") }
         /\ args = [ x |-> NDArray(In(1), ci.inShape, "float32"),
                     convInfo |-> ci, poolType |-> "avg" ]
  /\ op = "init"
  /\ ret = NoCall

NextAvgPool == AvgPool

SpecAvgPool == InitAvgPool /\ [][NextAvgPool]_vars

\* the input positions inside the clipped window of the output location
\* (yR, yC)
ClippedPositions(yR, yC) ==
  LET ci == args.convInfo
  IN  { pos \in (0..(ci.inHeight - 1)) \X (0..(ci.inWidth - 1)) :
          /\ pos[1] - (yR * ci.strideHeight - ci.padInfo.top)
                \in 0..(ci.filterHeight - 1)
          /\ pos[2] - (yC * ci.strideWidth - ci.padInfo.left)
                \in 0..(ci.filterWidth - 1) }

\* the output at loc is the arithmetic mean of the pixels of its clipped
\* window: the output times their number is their sum
IsMeanOfWindow(loc) ==
  LET window == ClippedPositions(loc[2], loc[3])
  IN  PoolAt(loc) * Cardinality(window)
        = SumFn([pos \in window |->
                   get4(heap, args.x, loc[1], pos[1], pos[2], loc[4])])

\* C25: avgPool of a NaN-free input: for every geometry, windows clipped
\* by padding at the borders included, the output at a location is the
\* arithmetic mean of the input elements inside its clipped window.
C25_AvgIsMeanOfWindow ==
  Returned("pool") =>
    \A loc \in PoolLocs :
      ClippedPositions(loc[2], loc[3]) # {} => IsMeanOfWindow(loc)

\* the same at the locations whose window is not clipped
C25_AvgIsMeanOfWholeWindow ==
  Returned("pool") =>
    \A loc \in PoolLocs :
      Cardinality(ClippedPositions(loc[2], loc[3]))
          = args.convInfo.filterHeight * args.convInfo.filterWidth
        => IsMeanOfWindow(loc)

---------------------------------------------------------------------------
(* matMul on one drawn pair of matrices.                                   *)

\* Largest dimension of a matrix drawn.
MaxMatDim == 2

MatShapes == { << m, n >> : m \in 1..MaxMatDim, n \in 1..MaxMatDim }

Orientations == { REGULAR, TRANSPOSED }

InitMatMul ==
  /\ \E aShape \in MatShapes : \E bShape \in MatShapes :
       \E aVals \in SeqsOf(Finite, sizeFromShape(aShape)) :
         \E bVals \in SeqsOf(Finite, sizeFromShape(bShape)) :
           \E aOrientation \in Orientations : \E bOrientation \in Orientations :
             /\ heap = StaticHeap \o << aVals, bVals >>
             /\ tensors = { NDArray(In(1), aShape, "float32"),
                            NDArray(In(2), bShape, "float32") }
             /\ args = [ a |-> NDArray(In(1), aShape, "float32"),
                         b |-> NDArray(In(2), bShape, "float32"),
                         aOrientation |-> aOrientation,
                         bOrientation |-> bOrientation ]
  /\ op = "init"
  /\ ret = NoCall

MatMul ==
  /\ op = "init"
  /\ Call("matMul", args,
          matMul(heap, args.a, args.b, args.aOrientation, args.bOrientation))

NextMatMul == MatMul

SpecMatMul == InitMatMul /\ [][NextMatMul]_vars

\* the dimensions of the product, from the shapes and the orientations
LeftDim == IF args.aOrientation = REGULAR THEN args.a.shape[1] ELSE args.a.shape[2]
SharedDim == IF args.aOrientation = REGULAR THEN args.a.shape[2] ELSE args.a.shape[1]
SharedDimOfB == IF args.bOrientation = REGULAR THEN args.b.shape[1] ELSE args.b.shape[2]
RightDim == IF args.bOrientation = REGULAR THEN args.b.shape[2] ELSE args.b.shape[1]

\* the location of A(i, k) in a and of B(k, j) in b
LocA(i, k) == IF args.aOrientation = REGULAR THEN << i, k >> ELSE << k, i >>
LocB(k, j) == IF args.bOrientation = REGULAR THEN << k, j >> ELSE << j, k >>

\* loc is a location of the tensor t
IsLocOf(loc, t) == \A d \in 1..Len(t.shape) : loc[d] \in 0..(t.shape[d] - 1)

\* the output has shape [leftDim, rightDim] and its element (i, j) is the
\* sum over k of A(i,k) * B(k,j), each of them an element of its operand
IsMatrixProduct ==
  /\ ret.result.shape = << LeftDim, RightDim >>
  /\ \A i \in 0..(LeftDim - 1) : \A j \in 0..(RightDim - 1) :
       /\ \A k \in 0..(SharedDim - 1) :
            IsLocOf(LocA(i, k), args.a) /\ IsLocOf(LocB(k, j), args.b)
       /\ get(heap, ret.result, << i, j >>)
            = SumFn([k \in 0..(SharedDim - 1) |->
                       get(heap, args.a, LocA(i, k)) * get(heap, args.b, LocB(k, j))])

---------------------------------------------------------------------------
(* maxPoolBackprop: where each gradient goes when maxima tie.              *)

\* position q is the first maximum of the window of (b, yR, yC, d) in
\* row-major scan order
IsFirstMax(b, yR, yC, d, q) ==
  /\ q \in PoolWindow(yR, yC)
  /\ \A w \in PoolWindow(yR, yC) :
       /\ get4(heap, args.x, b, w[1], w[2], d) <= get4(heap, args.x, b, q[1], q[2], d)
       /\ (w[1] < q[1] \/ (w[1] = q[1] /\ w[2] < q[2]))
            => get4(heap, args.x, b, w[1], w[2], d) < get4(heap, args.x, b, q[1], q[2], d)

\* x holds no NaN and every output window holds an input element
NoNaNNoEmptyWindow ==
  /\ ~HasNaN(InVals, DOMAIN InVals)
  /\ \A o \in OutLocs : PoolWindow(o[2], o[3]) # {}

\* the sum of the tensor t over the spatial axes, at batch b and channel d
SpatialSum(t, b, d) ==
  SumFn([e \in (0..(t.shape[2] - 1)) \X (0..(t.shape[3] - 1)) |->
           get4(heap, t, b, e[1], e[2], d)])

\* C27: maxPoolBackprop of a NaN-free x, ties between maxima allowed, every
\* window holding an input element: each dy[b,yR,yC,d] is added to one
\* element of dx, the first maximum of its window in row-major scan order,
\* so for every (b, d) the sum of dx over the spatial axes is the sum of dy.
C27_BackpropNoLossNoDouble ==
  (Returned("maxPoolBackprop") /\ NoNaNNoEmptyWindow) =>
    /\ \A i \in InLocs :
         get4(heap, ret.result, i[1], i[2], i[3], i[4])
           = SumFn([o \in { v \in OutLocs :
                             /\ v[1] = i[1] /\ v[4] = i[4]
                             /\ IsFirstMax(v[1], v[2], v[3], v[4], << i[2], i[3] >>) }
                     |-> get4(heap, args.dy, o[1], o[2], o[3], o[4])])
    /\ \A b \in 0..(args.convInfo.batchSize - 1) :
         \A d \in 0..(args.convInfo.inChannels - 1) :
           SpatialSum(ret.result, b, d) = SpatialSum(args.dy, b, d)

\* a window of two equal pixels: the gradient has gone to the first of them
\* and none to the second
C27_Witness ==
  /\ Returned("maxPoolBackprop") /\ NoNaNNoEmptyWindow
  /\ args.convInfo.inShape = << 1, 1, 2, 1 >>
  /\ args.convInfo.outShape = << 1, 1, 1, 1 >>
  /\ args.convInfo.filterWidth = 2 /\ args.convInfo.padInfo.left = 0
  /\ InVals[1] = InVals[2]
  /\ OutVals = << 1, 0 >>

---------------------------------------------------------------------------
(* multinomial: the batch rows of one call.                                *)

\* the probabilities of batch row b (0-based)
ProbRow(b) ==
  LET numEvents == args.probabilities.shape[2]
  IN  [e \in 1..numEvents |-> heap[args.probabilities.buf][b * numEvents + e]]

\* the samples of batch row b (0-based) in the result
SampleRow(b) ==
  [s \in 1..args.numSamples |-> OutVals[b * args.numSamples + s]]

\* the samples multinomial gives for the batch row b alone, as the one row
\* of a tensor, with the same numSamples and the same seed
SamplesAlone(b) ==
  LET outcome == multinomial(<< ProbRow(b) >>,
                             NDArray(1, << 1, args.probabilities.shape[2] >>, "float32"),
                             args.numSamples, args.seed)
  IN  outcome.heap[outcome.result.buf]

\* C28: multinomial builds the generator anew from the seed for every batch
\* row: within one call two batch rows of equal probabilities receive the
\* same samples, and the samples of a row are those of the row alone,
\* however many rows precede it.
C28_RowsShareDraws ==
  Returned("multinomial") =>
    \A b \in 0..(args.probabilities.shape[1] - 1) :
      /\ \A c \in 0..(args.probabilities.shape[1] - 1) :
           ProbRow(b) = ProbRow(c) => SampleRow(b) = SampleRow(c)
      /\ SampleRow(b) = SamplesAlone(b)

\* two equal rows, half and half on two events, two samples: each row has
\* the two events, in the same order
C28_Witness ==
  /\ Returned("multinomial")
  /\ args.probabilities.shape = << 2, 2 >>
  /\ args.numSamples = 2
  /\ ProbRow(0) = ProbRow(1)
  /\ SampleRow(0)[1] # SampleRow(0)[2]
  /\ SampleRow(1) = SampleRow(0)

====
